---- MODULE Spec2Model ----
(***************************************************************************)
(* A model of the personal assistant's agentic tool-use loop               *)
(* (AgenticAssistant, ToolExecutor, ClaudeAdapter.buildToolUseResponse)    *)
(* and of the morning digest composer (MorningDigestService).              *)
(*                                                                         *)
(* Conventions                                                             *)
(*   - an optional value (`text?`, `usage?`) that is absent is the string  *)
(*     Undefined for strings and the empty set for records (a present      *)
(*     record r is the singleton {r});                                     *)
(*   - `toolCalls: undefined` is the empty sequence: the code treats an    *)
(*     undefined and an empty toolCalls alike (`!toolCalls || length===0`);*)
(*   - a JSON object is a record of its top-level keys.                    *)
(***************************************************************************)
EXTENDS Integers, Sequences, FiniteSets, TLC

\* --------------------------------------------------------------- bounds
\* The largest number of tool_use blocks in one model response.
MaxToolCalls == 2
\* The number of chats that send messages.
MaxChats == 2

\* ------------------------------------------------------ program constants
MAX_TOOL_ITERATIONS == 10

Undefined == "<undefined>"
FallbackText == "I processed your request but have nothing to say."
ApologyText == "Sorry, I encountered an error processing your message. Please try again."

Chats == 1..MaxChats

\* ================================================================ helpers
RECURSIVE SelectBlocks(_, _)
\* The blocks of `blocks` whose type is `type`, in order.
SelectBlocks(blocks, type) ==
    IF blocks = <<>> THEN <<>>
    ELSE (IF Head(blocks).type = type THEN <<Head(blocks)>> ELSE <<>>)
         \o SelectBlocks(Tail(blocks), type)

\* ===================================================== the model provider
\* What the provider can answer (Anthropic.Message), before ids are assigned.
TextBlock(t) == [type |-> "text", text |-> t]
ToolUseBlock(name) == [type |-> "tool_use", id |-> 0, name |-> name, input |-> "input"]

\* Tool names a response may carry: a synchronous handler, an asynchronous
\* handler backed by an adapter, and a name the executor does not know.
RequestedNames == <<"log_meal", "create_note", "no_such_tool">>
NameAt(n, j) == RequestedNames[((n + j - 2) % 3) + 1]

ApiUsage == {[input_tokens |-> 2, output_tokens |-> 1]}

\* A response whose stop reason is tool_use, with n tool_use blocks.
ToolTurn(n, withText, usage) ==
    [stop_reason |-> "tool_use",
     content |-> (IF withText THEN <<TextBlock("Let me check.")>> ELSE <<>>)
                 \o [j \in 1..n |-> ToolUseBlock(NameAt(n, j))],
     usage |-> usage]

ApiToolTurns ==
    {ToolTurn(1, FALSE, ApiUsage), ToolTurn(MaxToolCalls, TRUE, {})}

ApiOtherTurns ==
    {[stop_reason |-> "end_turn", content |-> <<TextBlock("Done.")>>, usage |-> ApiUsage],
     [stop_reason |-> "end_turn", content |-> <<TextBlock("")>>, usage |-> {}],
     [stop_reason |-> "end_turn", content |-> <<>>, usage |-> ApiUsage],
     [stop_reason |-> "end_turn",
      content |-> <<TextBlock("First."), TextBlock("Second.")>>, usage |-> {}],
     [stop_reason |-> "stop_sequence", content |-> <<TextBlock("Done.")>>, usage |-> {}],
     [stop_reason |-> "max_tokens",
      content |-> <<TextBlock("Cut"), ToolUseBlock("log_meal")>>, usage |-> ApiUsage],
     [stop_reason |-> "tool_use", content |-> <<TextBlock("No tools.")>>, usage |-> {}],
     [stop_reason |-> "tool_use", content |-> <<>>, usage |-> ApiUsage]}

ApiResponses == ApiToolTurns \cup ApiOtherTurns

\* The provider gives every tool_use block an id of its own: the blocks of
\* one response get the ids first+1, first+2, ... in block order.
RECURSIVE AssignIds(_, _)
AssignIds(content, first) ==
    IF content = <<>> THEN <<>>
    ELSE IF Head(content).type = "tool_use"
         THEN <<[Head(content) EXCEPT !.id = first + 1]>>
              \o AssignIds(Tail(content), first + 1)
         ELSE <<Head(content)>> \o AssignIds(Tail(content), first)

\* ------------------------------------------- ClaudeAdapter.buildToolUseResponse
RECURSIVE LastText(_, _)
\* `text = block.text` for every text block in order: the last one wins.
LastText(content, text) ==
    IF content = <<>> THEN text
    ELSE LastText(Tail(content),
                  IF Head(content).type = "text" THEN Head(content).text ELSE text)

ToolCallOf(block) == [id |-> block.id, name |-> block.name, input |-> block.input]

buildToolUseResponse(api) ==
    LET uses == SelectBlocks(api.content, "tool_use")
    IN [stopReason |-> IF api.stop_reason = "tool_use" THEN "tool_use"
                       ELSE IF api.stop_reason = "max_tokens" THEN "max_tokens"
                       ELSE "end_turn",
        text |-> LastText(api.content, Undefined),
        toolCalls |-> [j \in 1..Len(uses) |-> ToolCallOf(uses[j])],
        contentBlocks |-> api.content,
        usage |-> {[inputTokens |-> u.input_tokens, outputTokens |-> u.output_tokens] :
                     u \in api.usage}]

NoResponse ==
    [stopReason |-> "end_turn", text |-> Undefined, toolCalls |-> <<>>,
     contentBlocks |-> <<>>, usage |-> {}]

\* ========================================================== ToolExecutor
SyncTools ==
    {"log_meal", "get_meals_today", "get_meals_range", "delete_meal", "update_meal",
     "get_health_profile", "set_health_profile", "log_sleep", "delete_sleep",
     "update_sleep", "set_location", "read_chat_history"}
\* Handlers declared `async` that await an adapter without a try/catch of their own.
AsyncTools ==
    {"get_newsletters", "get_sleep_last_night", "get_sleep_range", "create_note",
     "append_to_daily", "search_notes", "get_tasks", "get_categories", "read_note",
     "read_daily_note", "list_notes", "update_note"}

Resolved(json) == [settled |-> "fulfilled", value |-> json]
Rejected(reason) == [settled |-> "rejected", reason |-> reason]

\* execute(toolName, input) in an environment e:
\*   e.dbThrows        the repositories' calls throw,
\*   e.adapterRejects  the notes/email/sleep adapters' promises reject.
\* `return this.handler(input)` inside the try block is not awaited: what a
\* synchronous handler throws is caught, the rejection of the promise an
\* async handler returns is not, it becomes the rejection of execute's promise.
execute(toolName, input, e) ==
    IF toolName \in SyncTools
    THEN IF e.dbThrows
         THEN Resolved([error |-> "Tool execution failed: database error"])
         ELSE Resolved([success |-> "true"])
    ELSE IF toolName \in AsyncTools
    THEN IF e.adapterRejects
         THEN Rejected("Obsidian adapter is disabled")
         ELSE Resolved([success |-> "true"])
    ELSE IF toolName = "fetch_url"
    THEN Resolved([error |-> "Failed to fetch URL: network error"])
    ELSE Resolved([error |-> "Unknown tool: " \o toolName])

\* ===================================================== AgenticAssistant
VARIABLES
    pc,           \* where the message handler is
    message,      \* the inbound message being handled
    env,          \* the collaborators' behaviour while it is handled
    messages,     \* handleMessage's conversation
    response,     \* handleMessage's `response`
    iterations,   \* handleMessage's `iterations`
    toolResults,  \* the tool_result blocks of the current iteration
    totalUsage,   \* handleMessage's `totalUsage`
    modelCalls,   \* generateWithTools invocations for this message
    nextId,       \* the last tool-call id the provider assigned
    received,     \* every response received for this message, in order
    executed,     \* the ids of the tool calls handed to execute, in order
    sent,         \* the sendMessage attempts: <<to, text>>
    warned,       \* the 'Reached max tool iterations' warning was logged
    thrown        \* what the handler's try block threw, if anything

agentVars == <<pc, message, env, messages, response, iterations, toolResults,
               totalUsage, modelCalls, nextId, received, executed, sent, warned,
               thrown>>

\* What the handler's try block threw, and the step that threw it.
Error(source, reason) == [source |-> source, reason |-> reason]

NoMessage == [from |-> 0, text |-> ""]
NoEnv == [dbThrows |-> FALSE, adapterRejects |-> FALSE]
Envs == [dbThrows : BOOLEAN, adapterRejects : BOOLEAN]

AgentInit ==
    /\ pc = "idle"
    /\ message = NoMessage
    /\ env = NoEnv
    /\ messages = <<>>
    /\ response = NoResponse
    /\ iterations = 0
    /\ toolResults = <<>>
    /\ totalUsage = [inputTokens |-> 0, outputTokens |-> 0]
    /\ modelCalls = 0
    /\ nextId = 0
    /\ received = <<>>
    /\ executed = <<>>
    /\ sent = <<>>
    /\ warned = FALSE
    /\ thrown = {}

\* `if (response.usage) { totalUsage.x += response.usage.x }`
Accumulate_Overwrite(total, usage) ==
    IF usage = {} THEN total
    ELSE LET u == CHOOSE x \in usage : TRUE
         IN [inputTokens |-> u.inputTokens, outputTokens |-> u.outputTokens]

Accumulate(total, usage) ==
    IF usage = {} THEN total
    ELSE LET u == CHOOSE x \in usage : TRUE
         IN [inputTokens |-> total.inputTokens + u.inputTokens,
             outputTokens |-> total.outputTokens + u.outputTokens]

\* The onMessage callback up to handleMessage's first await: the history
\* save, the initial conversation and the first generateWithTools call.
OnMessage(chat, e, saveThrows) ==
    /\ pc = "idle"
    /\ message' = [from |-> chat, text |-> "hello"]
    /\ env' = e
    /\ IF saveThrows
       THEN /\ pc' = "catch"
            /\ thrown' = {Error("history", "history save failed")}
            /\ UNCHANGED <<messages, modelCalls>>
       ELSE /\ pc' = "awaitModel"
            /\ messages' = <<[role |-> "user", content |-> message'.text]>>
            /\ modelCalls' = modelCalls + 1
            /\ UNCHANGED thrown
    /\ UNCHANGED <<response, iterations, toolResults, totalUsage, nextId, received,
                   executed, sent, warned>>

\* generateWithTools resolves: the response is stored and its usage accumulated.
ModelRespond(api) ==
    /\ pc = "awaitModel"
    /\ LET content == AssignIds(api.content, nextId)
           r == buildToolUseResponse([api EXCEPT !.content = content])
       IN /\ response' = r
          /\ nextId' = nextId + Len(r.toolCalls)
          /\ totalUsage' = Accumulate(totalUsage, r.usage)
          /\ received' = Append(received, r)
    /\ pc' = "while"
    /\ UNCHANGED <<message, env, messages, iterations, toolResults, modelCalls,
                   executed, sent, warned, thrown>>

\* generateWithTools rejects (LLMError).
ModelFail ==
    /\ pc = "awaitModel"
    /\ pc' = "catch"
    /\ thrown' = {Error("model", "Claude tool use generation failed")}
    /\ UNCHANGED <<message, env, messages, response, iterations, toolResults,
                   totalUsage, modelCalls, nextId, received, executed, sent, warned>>

\* `while (response.stopReason === 'tool_use' && iterations < MAX_TOOL_ITERATIONS)`
LoopCondition_OffByOne ==
    response.stopReason = "tool_use" /\ iterations <= MAX_TOOL_ITERATIONS

LoopCondition == response.stopReason = "tool_use" /\ iterations < MAX_TOOL_ITERATIONS

AssistantTurn_TextOnly(r) ==
    [role |-> "assistant", content |-> SelectBlocks(r.contentBlocks, "text")]

\* `messages.push({ role: 'assistant', content: response.contentBlocks })`
AssistantTurn(r) == [role |-> "assistant", content |-> r.contentBlocks]

\* The loop body up to the first execute: the assistant turn is pushed.
LoopEnter ==
    /\ pc = "while"
    /\ LoopCondition
    /\ response.toolCalls # <<>>
    /\ iterations' = iterations + 1
    /\ messages' = Append(messages, AssistantTurn(response))
    /\ toolResults' = <<>>
    /\ pc' = "tools"
    /\ UNCHANGED <<message, env, response, totalUsage, modelCalls, nextId, received,
                   executed, sent, warned, thrown>>

\* 'Got tool_use stop reason but no tool calls': break.
LoopBreak ==
    /\ pc = "while"
    /\ LoopCondition
    /\ response.toolCalls = <<>>
    /\ iterations' = iterations + 1
    /\ pc' = "final"
    /\ UNCHANGED <<message, env, messages, response, toolResults, totalUsage,
                   modelCalls, nextId, received, executed, sent, warned, thrown>>

LoopExit ==
    /\ pc = "while"
    /\ ~LoopCondition
    /\ pc' = "final"
    /\ UNCHANGED <<message, env, messages, response, iterations, toolResults,
                   totalUsage, modelCalls, nextId, received, executed, sent, warned,
                   thrown>>

ToolResultBlock_FirstId(toolCall, result) ==
    [type |-> "tool_result", tool_use_id |-> response.toolCalls[1].id, content |-> result]

ToolResultBlock(toolCall, result) ==
    [type |-> "tool_result", tool_use_id |-> toolCall.id, content |-> result]

NextToolCall_Stuck(results) == response.toolCalls[1]

\* The call the for-of loop is at once `results` holds the earlier calls' results.
NextToolCall(results) == response.toolCalls[Len(results) + 1]

\* One pass of `for (const toolCall of response.toolCalls)`: the next call is
\* executed and awaited; after the last one the tool results are pushed as a
\* user turn and the model is called again.
ExecuteTool ==
    /\ pc = "tools"
    /\ LET toolCall == NextToolCall(toolResults)
           outcome == execute(toolCall.name, toolCall.input, env)
       IN /\ executed' = Append(executed, toolCall.id)
          /\ IF outcome.settled = "rejected"
             THEN /\ pc' = "catch"
                  /\ thrown' = {Error("execute", outcome.reason)}
                  /\ UNCHANGED <<toolResults, messages, modelCalls>>
             ELSE LET results == Append(toolResults, ToolResultBlock(toolCall, outcome.value))
                  IN /\ toolResults' = results
                     /\ UNCHANGED thrown
                     /\ IF Len(results) = Len(response.toolCalls)
                        THEN /\ messages' = Append(messages, [role |-> "user", content |-> results])
                             /\ modelCalls' = modelCalls + 1
                             /\ pc' = "awaitModel"
                        ELSE /\ pc' = "tools"
                             /\ UNCHANGED <<messages, modelCalls>>
    /\ UNCHANGED <<message, env, response, iterations, totalUsage, nextId, received,
                   sent, warned>>

\* `response.text ?? '...'`: only an absent text is replaced.
finalText(r) == IF r.text = Undefined THEN FallbackText ELSE r.text

Finish_CeilingThrows(saveThrows, sendThrows) ==
    /\ pc = "final"
    /\ warned' = (iterations >= MAX_TOOL_ITERATIONS)
    /\ IF saveThrows \/ warned'
       THEN /\ pc' = "catch"
            /\ thrown' = {Error("loop", "too many tool iterations")}
            /\ UNCHANGED sent
       ELSE /\ sent' = Append(sent, <<message.from, finalText(response)>>)
            /\ IF sendThrows
               THEN pc' = "catch" /\ thrown' = {Error("send", "send failed")}
               ELSE pc' = "done" /\ UNCHANGED thrown
    /\ UNCHANGED <<message, env, messages, response, iterations, toolResults,
                   totalUsage, modelCalls, nextId, received, executed>>

\* After the loop: the warning, the final text, the history save and the reply.
Finish(saveThrows, sendThrows) ==
    /\ pc = "final"
    /\ warned' = (iterations >= MAX_TOOL_ITERATIONS)
    /\ IF saveThrows
       THEN /\ pc' = "catch"
            /\ thrown' = {Error("history", "assistant response save failed")}
            /\ UNCHANGED sent
       ELSE /\ sent' = Append(sent, <<message.from, finalText(response)>>)
            /\ IF sendThrows
               THEN pc' = "catch" /\ thrown' = {Error("send", "send failed")}
               ELSE pc' = "done" /\ UNCHANGED thrown
    /\ UNCHANGED <<message, env, messages, response, iterations, toolResults,
                   totalUsage, modelCalls, nextId, received, executed>>

Catch_Swallow ==
    /\ pc = "catch"
    /\ pc' = "done"
    /\ UNCHANGED <<message, env, messages, response, iterations, toolResults,
                   totalUsage, modelCalls, nextId, received, executed, warned, thrown,
                   sent>>

\* The handler's catch block: the fixed apology is sent (the attempt is
\* recorded whether or not the transport delivers it), then `finally`.
Catch ==
    /\ pc = "catch"
    /\ sent' = Append(sent, <<message.from, ApologyText>>)
    /\ pc' = "done"
    /\ UNCHANGED <<message, env, messages, response, iterations, toolResults,
                   totalUsage, modelCalls, nextId, received, executed, warned, thrown>>

\* The handler has returned; the next message starts from a fresh handleMessage.
Return ==
    /\ pc = "done"
    /\ pc' = "idle"
    /\ message' = NoMessage
    /\ env' = NoEnv
    /\ messages' = <<>>
    /\ response' = NoResponse
    /\ iterations' = 0
    /\ toolResults' = <<>>
    /\ totalUsage' = [inputTokens |-> 0, outputTokens |-> 0]
    /\ modelCalls' = 0
    /\ nextId' = 0
    /\ received' = <<>>
    /\ executed' = <<>>
    /\ sent' = <<>>
    /\ warned' = FALSE
    /\ thrown' = {}

\* ================================================== MorningDigestService
\* A string of the digest is a sequence of tokens: words or phrases, and the
\* whitespace tokens " " and "\n". Concatenation is \o, the empty string <<>>.
\* The emoji that prefix the headers are left out of the tokens.
Whitespace == {" ", "\n"}

RECURSIVE trimStart(_)
trimStart(str) ==
    IF str # <<>> /\ Head(str) \in Whitespace THEN trimStart(Tail(str)) ELSE str

RECURSIVE trimEnd(_)
trimEnd(str) ==
    IF str # <<>> /\ str[Len(str)] \in Whitespace
    THEN trimEnd(SubSeq(str, 1, Len(str) - 1)) ELSE str

\* String.prototype.trim
trim(str) == trimEnd(trimStart(str))

RECURSIVE join(_, _)
\* Array.prototype.join
join(strs, sep) ==
    IF strs = <<>> THEN <<>>
    ELSE IF Len(strs) = 1 THEN strs[1]
    ELSE strs[1] \o sep \o join(Tail(strs), sep)

Greeting == <<"Good morning! Here's your daily brief:", "\n">>
WeatherHeader == <<"WEATHER", "\n">>
HealthHeader == <<"TODAY'S FOCUS", "\n">>
RssHeader == <<"MUST-READ", "\n">>
WeatherPlaceholder == <<"Set your location to get weather updates.">>
HealthPlaceholder == <<"Stay hydrated and move your body today.">>
RssPlaceholder == <<"Couldn't fetch headlines today.">>
HealthFallback == <<"Focus on balanced nutrition and good sleep today.">>
NoArticles == <<"No new articles today.">>

\* What Promise.allSettled reports for a section builder; value is {} for
\* null and {str} for a string.
Pending == [status |-> "pending", value |-> {}]
Fulfilled(value) == [status |-> "fulfilled", value |-> value]
SectionRejected == [status |-> "rejected", value |-> {}]

\* `section.status === 'fulfilled' && section.value`: null and '' are falsy.
SectionOk(section) == section.status = "fulfilled" /\ section.value \notin {{}, {<<>>}}

\* The body pushed under a section's header.
SectionBody(section, placeholder) ==
    IF SectionOk(section) THEN CHOOSE str \in section.value : TRUE ELSE placeholder

ComposeDigest_AllOrNothing(weather, health, rss) ==
    LET failed == \E x \in {weather, health, rss} : x.status = "rejected"
        body(section, placeholder) ==
            IF failed THEN placeholder ELSE SectionBody(section, placeholder)
    IN join(<<Greeting,
              WeatherHeader \o body(weather, WeatherPlaceholder),
              <<>>,
              HealthHeader \o body(health, HealthPlaceholder),
              <<>>,
              RssHeader \o body(rss, RssPlaceholder)>>,
            <<"\n">>)

\* triggerDigest's sections and `sections.join('\n')`
ComposeDigest(weather, health, rss) ==
    join(<<Greeting,
           WeatherHeader \o SectionBody(weather, WeatherPlaceholder),
           <<>>,
           HealthHeader \o SectionBody(health, HealthPlaceholder),
           <<>>,
           RssHeader \o SectionBody(rss, RssPlaceholder)>>,
         <<"\n">>)

\* ---- the health sub-loop's model and tools
maxIterations == 3

HealthNames == <<"get_meals_range", "get_sleep_range", "log_meal">>
HealthToolTurn(n, withText) ==
    [stop_reason |-> "tool_use",
     content |-> (IF withText THEN <<TextBlock(<<"Checking.">>)>> ELSE <<>>)
                 \o [j \in 1..n |-> ToolUseBlock(HealthNames[((n + j - 2) % 3) + 1])],
     usage |-> {}]

HealthApiResponses ==
    {HealthToolTurn(1, FALSE), HealthToolTurn(MaxToolCalls, TRUE),
     [stop_reason |-> "end_turn",
      content |-> <<TextBlock(<<" ", "Aim for 7h of sleep.", "\n">>)>>, usage |-> {}],
     [stop_reason |-> "end_turn", content |-> <<TextBlock(<<" ">>)>>, usage |-> {}],
     [stop_reason |-> "end_turn", content |-> <<>>, usage |-> {}],
     [stop_reason |-> "tool_use", content |-> <<>>, usage |-> {}]}

\* executeHealthTool: an async function without a try/catch, so what the
\* repository throws or the sleep adapter rejects with rejects its promise.
executeHealthTool(name, input, e) ==
    IF name = "get_meals_range"
    THEN IF e.dbThrows THEN Rejected("database error")
         ELSE Resolved([found |-> "true", meal_count |-> "1"])
    ELSE IF name = "get_sleep_range"
    THEN IF e.adapterRejects THEN Rejected("sleep adapter error")
         ELSE Resolved([found |-> "false", message |-> "No sleep data in this range"])
    ELSE Resolved([error |-> "Unknown tool: " \o name])

\* ---- the headline curation
\* The model's curation text: JSON tokens "[", "]", picks, other values, prose.
\* "{}" is an object without the fields of a pick.
PickTokens == {"{pick1}", "{pick2}"}
ElementTokens == PickTokens \cup {"{}", "null"}

\* The fields of an array element as the template literal prints them.
PickOf(token) ==
    IF token = "{pick1}"
    THEN [category |-> "The rabbit hole", headline |-> "H1", pitch |-> "P1", link |-> "L1"]
    ELSE IF token = "{pick2}"
    THEN [category |-> "Contrarian take", headline |-> "H2", pitch |-> "P2", link |-> "L2"]
    ELSE [category |-> "undefined", headline |-> "undefined", pitch |-> "undefined",
          link |-> "undefined"]

PickArrayTexts == {<<"[", "{pick1}", "{pick2}", "]">>, <<" ", "[", "{pick1}", "]", "\n">>}
EmptyArrayTexts == {<<"[", "]">>}
InvalidJsonTexts == {<<"Here are my picks:", " ", "[", "{pick1}", "]">>, <<" ">>}
NonArrayTexts == {<<"{object}">>}
NullElementTexts == {<<"[", "null", "]">>}
ObjectElementTexts == {<<"[", "{}", "]">>}

CurationTexts ==
    PickArrayTexts \cup EmptyArrayTexts \cup InvalidJsonTexts \cup NonArrayTexts
    \cup NullElementTexts \cup ObjectElementTexts

\* JSON.parse of a trimmed text: an array, another JSON value, or a
\* SyntaxError.
JSONparse(str) ==
    IF Len(str) >= 2 /\ str[1] = "[" /\ str[Len(str)] = "]"
       /\ \A i \in 2..(Len(str) - 1) : str[i] \in ElementTokens
    THEN [ok |-> TRUE, array |-> TRUE, elements |-> SubSeq(str, 2, Len(str) - 1)]
    ELSE IF str = <<"{object}">>
    THEN [ok |-> TRUE, array |-> FALSE, elements |-> <<>>]
    ELSE [ok |-> FALSE, array |-> FALSE, elements |-> <<>>]

\* `${p.category}: ${p.headline}\n${p.pitch}\n${p.link}`
FormatPick(p) == <<p.category \o ": " \o p.headline, "\n", p.pitch, "\n", p.link>>

CurationResult_EmptyOnFailure(text) ==
    LET parsed == JSONparse(trim(text))
    IN IF parsed.ok /\ parsed.array /\ \A i \in DOMAIN parsed.elements :
                                          parsed.elements[i] # "null"
       THEN join([i \in DOMAIN parsed.elements |-> FormatPick(PickOf(parsed.elements[i]))],
                 <<"\n", "\n">>)
       ELSE <<>>

\* buildRSSSection after the curation text arrived: the elements formatted,
\* or the raw trimmed text when JSON.parse, `.map` or a property read of a
\* null element throws.
CurationResult(text) ==
    LET parsed == JSONparse(trim(text))
    IN IF parsed.ok /\ parsed.array /\ \A i \in DOMAIN parsed.elements :
                                          parsed.elements[i] # "null"
       THEN join([i \in DOMAIN parsed.elements |-> FormatPick(PickOf(parsed.elements[i]))],
                 <<"\n", "\n">>)
       ELSE trim(text)

VARIABLES
    dpc,            \* triggerDigest: "idle", "building", "sent", "failed"
    dChat,          \* the chat the digest is for
    dPrefs,         \* userPrefsRepo.get(chatId)'s lat and lon ({} is undefined)
    dEnv,           \* the collaborators' behaviour during this digest
    wpc,            \* buildWeatherSection's position
    weatherCalls,   \* its weatherPort.getWeather invocations: <<lat, lon>>
    summaryCalls,   \* its haikuPort.generateText invocations
    weatherSection, \* its settled result
    hpc,            \* buildHealthSection's position
    hMessages,      \* its conversation
    hResponse,      \* its `response`
    hIterations,    \* its `iterations`
    hToolResults,   \* the tool_result blocks of its current iteration
    hModelCalls,    \* its generateWithTools invocations
    hOffered,       \* the `tools` of each of these invocations
    hNextId,        \* the last tool-call id the provider assigned
    healthSection,  \* its settled result
    rpc,            \* buildRSSSection's position
    rText,          \* the curation `response.text` ({} before it arrived)
    rssSection,     \* its settled result
    digestSent      \* the sendMessage attempts of triggerDigest: <<to, text>>

digestVars == <<dpc, dChat, dPrefs, dEnv, wpc, weatherCalls, summaryCalls,
                weatherSection, hpc, hMessages, hResponse, hIterations, hToolResults,
                hModelCalls, hOffered, hNextId, healthSection, rpc, rText, rssSection,
                digestSent>>

weatherVars == <<wpc, weatherCalls, summaryCalls, weatherSection>>
healthVars == <<hpc, hMessages, hResponse, hIterations, hToolResults, hModelCalls,
                hOffered, hNextId, healthSection>>
rssVars == <<rpc, rText, rssSection>>
triggerVars == <<dpc, dChat, dPrefs, dEnv, digestSent>>

NoPrefs == [lat |-> {}, lon |-> {}]
PrefsInputs == {NoPrefs, [lat |-> {51}, lon |-> {}], [lat |-> {51}, lon |-> {0}]}

DigestInit ==
    /\ dpc = "idle"
    /\ dChat = 0
    /\ dPrefs = NoPrefs
    /\ dEnv = NoEnv
    /\ wpc = "idle"
    /\ weatherCalls = <<>>
    /\ summaryCalls = 0
    /\ weatherSection = Pending
    /\ hpc = "idle"
    /\ hMessages = <<>>
    /\ hResponse = NoResponse
    /\ hIterations = 0
    /\ hToolResults = <<>>
    /\ hModelCalls = 0
    /\ hOffered = <<>>
    /\ hNextId = 0
    /\ healthSection = Pending
    /\ rpc = "idle"
    /\ rText = {}
    /\ rssSection = Pending
    /\ digestSent = <<>>

\* The names of HEALTH_TOOLS, passed as `tools` by buildHealthSection.
HEALTH_TOOLS == {"get_meals_range", "get_sleep_range"}

HasCoordinates_LatOnly(prefs) == prefs.lat # {}

\* buildWeatherSection's `lat === undefined || lon === undefined`, negated
HasCoordinates(prefs) == prefs.lat # {} /\ prefs.lon # {}

\* triggerDigest up to `await Promise.allSettled`: each builder runs to its
\* first await (buildWeatherSection returns null without coordinates).
TriggerDigest(chat, prefs, e) ==
    /\ dpc = "idle"
    /\ dpc' = "building"
    /\ dChat' = chat
    /\ dPrefs' = prefs
    /\ dEnv' = e
    /\ IF ~HasCoordinates(prefs)
       THEN wpc' = "settled" /\ weatherSection' = Fulfilled({}) /\ UNCHANGED weatherCalls
       ELSE /\ wpc' = "awaitWeather"
            /\ weatherCalls' = Append(weatherCalls, <<prefs.lat, prefs.lon>>)
            /\ UNCHANGED weatherSection
    /\ hpc' = "awaitModel"
    /\ hMessages' = <<[role |-> "user", content |-> "HEALTH_PROMPT"]>>
    /\ hModelCalls' = 1
    /\ hOffered' = <<HEALTH_TOOLS>>
    /\ rpc' = "awaitFetch"
    /\ UNCHANGED <<summaryCalls, hResponse, hIterations, hToolResults, hNextId,
                   healthSection, rText, rssSection, digestSent>>

\* ---- buildWeatherSection
WeatherFetched ==
    /\ wpc = "awaitWeather"
    /\ wpc' = "awaitSummary"
    /\ summaryCalls' = summaryCalls + 1
    /\ UNCHANGED <<weatherCalls, weatherSection, healthVars, rssVars, triggerVars>>

WeatherFetchFailed ==
    /\ wpc = "awaitWeather"
    /\ wpc' = "settled"
    /\ weatherSection' = SectionRejected
    /\ UNCHANGED <<weatherCalls, summaryCalls, healthVars, rssVars, triggerVars>>

WeatherTexts == {<<" ", "Sunny, 21C.", " ", "Good day for a run.", "\n">>, <<"\n">>}

\* haikuPort.generateText resolves: `return response.text.trim()`
WeatherSummarized(text) ==
    /\ wpc = "awaitSummary"
    /\ wpc' = "settled"
    /\ weatherSection' = Fulfilled({trim(text)})
    /\ UNCHANGED <<weatherCalls, summaryCalls, healthVars, rssVars, triggerVars>>

WeatherSummaryFailed ==
    /\ wpc = "awaitSummary"
    /\ wpc' = "settled"
    /\ weatherSection' = SectionRejected
    /\ UNCHANGED <<weatherCalls, summaryCalls, healthVars, rssVars, triggerVars>>

\* ---- buildHealthSection
HealthRespond(api) ==
    /\ hpc = "awaitModel"
    /\ LET content == AssignIds(api.content, hNextId)
           r == buildToolUseResponse([api EXCEPT !.content = content])
       IN /\ hResponse' = r
          /\ hNextId' = hNextId + Len(r.toolCalls)
    /\ hpc' = "while"
    /\ UNCHANGED <<hMessages, hIterations, hToolResults, hModelCalls, hOffered,
                   healthSection, weatherVars, rssVars, triggerVars>>

HealthModelFail ==
    /\ hpc = "awaitModel"
    /\ hpc' = "settled"
    /\ healthSection' = SectionRejected
    /\ UNCHANGED <<hMessages, hResponse, hIterations, hToolResults, hModelCalls,
                   hOffered, hNextId, weatherVars, rssVars, triggerVars>>

HealthLoopCondition_OffByOne ==
    hResponse.stopReason = "tool_use" /\ hIterations <= maxIterations

HealthLoopCondition == hResponse.stopReason = "tool_use" /\ hIterations < maxIterations

HealthLoopEnter ==
    /\ hpc = "while"
    /\ HealthLoopCondition
    /\ hResponse.toolCalls # <<>>
    /\ hIterations' = hIterations + 1
    /\ hMessages' = Append(hMessages, AssistantTurn(hResponse))
    /\ hToolResults' = <<>>
    /\ hpc' = "tools"
    /\ UNCHANGED <<hResponse, hModelCalls, hOffered, hNextId, healthSection,
                   weatherVars, rssVars, triggerVars>>

\* `response.text?.trim() ?? '...'`
HealthText(r) == IF r.text = Undefined THEN HealthFallback ELSE trim(r.text)

\* The loop is left (its condition is false, or the break on no tool calls)
\* and the section's text is returned.
HealthLoopExit ==
    /\ hpc = "while"
    /\ ~HealthLoopCondition \/ hResponse.toolCalls = <<>>
    /\ hIterations' = IF HealthLoopCondition THEN hIterations + 1 ELSE hIterations
    /\ hpc' = "settled"
    /\ healthSection' = Fulfilled({HealthText(hResponse)})
    /\ UNCHANGED <<hMessages, hResponse, hToolResults, hModelCalls, hOffered, hNextId,
                   weatherVars, rssVars, triggerVars>>

HealthExecuteTool ==
    /\ hpc = "tools"
    /\ LET toolCall == hResponse.toolCalls[Len(hToolResults) + 1]
           outcome == executeHealthTool(toolCall.name, toolCall.input, dEnv)
       IN IF outcome.settled = "rejected"
          THEN /\ hpc' = "settled"
               /\ healthSection' = SectionRejected
               /\ UNCHANGED <<hToolResults, hMessages, hModelCalls, hOffered>>
          ELSE LET results == Append(hToolResults,
                                     [type |-> "tool_result", tool_use_id |-> toolCall.id,
                                      content |-> outcome.value])
               IN /\ hToolResults' = results
                  /\ UNCHANGED healthSection
                  /\ IF Len(results) = Len(hResponse.toolCalls)
                     THEN /\ hMessages' = Append(hMessages, [role |-> "user", content |-> results])
                          /\ hModelCalls' = hModelCalls + 1
                          /\ hOffered' = Append(hOffered, HEALTH_TOOLS)
                          /\ hpc' = "awaitModel"
                     ELSE /\ hpc' = "tools"
                          /\ UNCHANGED <<hMessages, hModelCalls, hOffered>>
    /\ UNCHANGED <<hResponse, hIterations, hNextId, weatherVars, rssVars, triggerVars>>

\* ---- buildRSSSection
\* rssAdapter.fetchAll resolves with `count` items.
RssFetched(count) ==
    /\ rpc = "awaitFetch"
    /\ IF count = 0
       THEN rpc' = "settled" /\ rssSection' = Fulfilled({NoArticles})
       ELSE rpc' = "awaitCuration" /\ UNCHANGED rssSection
    /\ UNCHANGED <<rText, weatherVars, healthVars, triggerVars>>

RssFetchFailed ==
    /\ rpc = "awaitFetch"
    /\ rpc' = "settled"
    /\ rssSection' = SectionRejected
    /\ UNCHANGED <<rText, weatherVars, healthVars, triggerVars>>

RssCurated(text) ==
    /\ rpc = "awaitCuration"
    /\ rpc' = "settled"
    /\ rText' = {text}
    /\ rssSection' = Fulfilled({CurationResult(text)})
    /\ UNCHANGED <<weatherVars, healthVars, triggerVars>>

RssCurationFailed ==
    /\ rpc = "awaitCuration"
    /\ rpc' = "settled"
    /\ rssSection' = SectionRejected
    /\ UNCHANGED <<rText, weatherVars, healthVars, triggerVars>>

\* ---- triggerDigest after allSettled: the sections are combined and sent.
SendDigest_Early(sendThrows) ==
    /\ dpc = "building"
    /\ digestSent' = Append(digestSent,
                            <<dChat, ComposeDigest(weatherSection, healthSection, rssSection)>>)
    /\ dpc' = IF sendThrows THEN "failed" ELSE "sent"
    /\ UNCHANGED <<dChat, dPrefs, dEnv, weatherVars, healthVars, rssVars>>

SendDigest(sendThrows) ==
    /\ dpc = "building"
    /\ wpc = "settled" /\ hpc = "settled" /\ rpc = "settled"
    /\ digestSent' = Append(digestSent,
                            <<dChat, ComposeDigest(weatherSection, healthSection, rssSection)>>)
    /\ dpc' = IF sendThrows THEN "failed" ELSE "sent"
    /\ UNCHANGED <<dChat, dPrefs, dEnv, weatherVars, healthVars, rssVars>>

\* triggerDigest's promise has settled; the next digest starts afresh.
DigestReturn ==
    /\ dpc \in {"sent", "failed"}
    /\ dpc' = "idle"
    /\ dChat' = 0
    /\ dPrefs' = NoPrefs
    /\ dEnv' = NoEnv
    /\ wpc' = "idle"
    /\ weatherCalls' = <<>>
    /\ summaryCalls' = 0
    /\ weatherSection' = Pending
    /\ hpc' = "idle"
    /\ hMessages' = <<>>
    /\ hResponse' = NoResponse
    /\ hIterations' = 0
    /\ hToolResults' = <<>>
    /\ hModelCalls' = 0
    /\ hOffered' = <<>>
    /\ hNextId' = 0
    /\ healthSection' = Pending
    /\ rpc' = "idle"
    /\ rText' = {}
    /\ rssSection' = Pending
    /\ digestSent' = <<>>

\* ============================================ ToolExecutor and its stores
\* One ToolExecutor is built per inbound message and bound to its chat; the
\* repositories it is given are shared by all chats. Here execute is followed
\* into the handlers and the repositories' tables.
MaxCalls == 2

\* A JavaScript value of a tool input, as the model supplies it.
Absent == [type |-> "undefined", finite |-> FALSE, num |-> 0, str |-> ""]
Num(n) == [type |-> "number", finite |-> TRUE, num |-> n, str |-> ""]
NaN == [type |-> "number", finite |-> FALSE, num |-> 0, str |-> "NaN"]
Str(s) == [type |-> "string", finite |-> FALSE, num |-> 0, str |-> s]
Null == [type |-> "object", finite |-> FALSE, num |-> 0, str |-> "null"]

num_ParsesStrings(v) ==
    IF v.type = "number" /\ v.finite THEN {v.num}
    ELSE IF v.type = "string" /\ v.str = "1" THEN {1} ELSE {}

\* ToolExecutor.num: {} is undefined
num(v) == IF v.type = "number" /\ v.finite THEN {v.num} ELSE {}

\* Calendar dates are day numbers; the clock stands at Today for a run.
Today == 2
\* Date.parse of the strings the model supplies: {} is NaN
DateParse(s) == IF s = "day1" THEN {1} ELSE IF s = "day2" THEN {2} ELSE {}

NoFields == [k \in {} |-> {}]

Opt_Zero(key, value) == key :> (IF value = {} THEN 0 ELSE CHOOSE x \in value : TRUE)

\* JSON.stringify leaves out a key whose value is undefined.
Opt(key, value) == IF value = {} THEN NoFields ELSE (key :> CHOOSE x \in value : TRUE)

\* The `name` of each definition of the array ALL_TOOLS, in its order.
CatalogNames ==
    <<"log_meal", "get_meals_today", "get_meals_range", "get_health_profile",
      "set_health_profile", "get_newsletters", "log_sleep", "get_sleep_last_night",
      "get_sleep_range", "set_location", "create_note", "append_to_daily", "search_notes",
      "get_tasks", "get_categories", "read_note", "read_daily_note", "list_notes",
      "update_note", "fetch_url">>

\* The names of the Tool Catalog's definitions.
ALL_TOOLS == {CatalogNames[i] : i \in DOMAIN CatalogNames}

HandledNames_WithoutFetchUrl == SyncTools \cup AsyncTools

\* The case labels of execute's switch.
HandledNames == SyncTools \cup AsyncTools \cup {"fetch_url"}

\* Names a model may ask for that no case label matches.
OtherNames == {"no_such_tool", "logMeal", ""}

MealInput(description, calories, protein, carbs, fat, time_eaten, chat_id) ==
    [description |-> description, calories |-> calories, protein |-> protein,
     carbs |-> carbs, fat |-> fat, time_eaten |-> time_eaten, chat_id |-> chat_id]

MealInputs ==
    {MealInput(Str("eggs"), Num(300), Num(0), Num(40), Num(10), Absent, Absent),
     MealInput(Str("toast"), Str("300"), NaN, Absent, Num(5), Str("day2"), Str("2")),
     MealInput(Str("soup"), Num(200), Absent, Absent, Absent, Str("day1"), Absent),
     MealInput(Absent, Absent, Absent, Absent, Absent, Str("soon"), Absent)}

IdValues == {Absent, Num(1), Num(2), Str("1"), NaN, Null}
DeleteMealInputs == [meal_id : IdValues, chat_id : {Absent}]
DeleteSleepInputs == [sleep_id : IdValues, chat_id : {Absent}]

SleepInputs ==
    {[date |-> Absent, sleep_score |-> Num(80), chat_id |-> Str("2")],
     [date |-> Str("day1"), sleep_score |-> Absent, chat_id |-> Absent]}

LocationInputs ==
    {[lat |-> Num(51), lon |-> Num(0)], [lat |-> Num(51), lon |-> Absent],
     [lat |-> Str("51"), lon |-> Num(0)]}

ProfileInputs ==
    {[height_cm |-> Num(180), weight_kg |-> Absent],
     [height_cm |-> Absent, weight_kg |-> Num(75)],
     [height_cm |-> Absent, weight_kg |-> Str("75")]}

HistoryInputs == {[limit |-> Absent, offset |-> Absent], [limit |-> Num(5), offset |-> Num(6)]}

VARIABLES
    tCalls,     \* the execute calls made so far
    tCall,      \* the last call: the executor's chat, the tool name, the input
    tResult,    \* what its promise settled with
    tOps,       \* the repository and adapter calls it issued: [target, op, chat]
    meals,      \* table meals, in insertion order
    mealSeq,    \* its AUTOINCREMENT sequence
    sleepLog,   \* table sleep_log, in insertion order
    sleepSeq,   \* its AUTOINCREMENT sequence
    profiles,   \* table user_health_profiles: chat -> {} or {row}
    userPrefs,  \* table user_preferences: chat -> {} or {row}
    digests,    \* the triggerDigest promises log_sleep started: [chat, state]
    digestWeather, \* per such digest, the <<lat, lon>> of its getWeather call, or {}
    digestLog   \* the 'Failed to trigger morning digest' log lines

toolVars == <<tCalls, tCall, tResult, tOps, meals, mealSeq, sleepLog, sleepSeq,
              profiles, userPrefs, digests, digestWeather,
                 digestLog>>
stores == <<meals, mealSeq, sleepLog, sleepSeq, profiles, userPrefs>>

NoCall == [chat |-> 0, name |-> "", input |-> NoFields]

ToolInit ==
    /\ tCalls = 0
    /\ tCall = NoCall
    /\ tResult = Resolved(NoFields)
    /\ tOps = <<>>
    /\ meals = <<>>
    /\ mealSeq = 0
    /\ sleepLog = <<>>
    /\ sleepSeq = 0
    /\ profiles = [c \in Chats |-> {}]
    /\ userPrefs = [c \in Chats |-> {}]
    /\ digests = <<>>
    /\ digestWeather = <<>>
    /\ digestLog = 0

Op(target, op, chat) == [target |-> target, op |-> op, chat |-> chat]

\* execute's catch block, reached by what a handler throws synchronously
ToolFailed(reason) == Resolved([error |-> "Tool execution failed: " \o reason])

\* execute was called on the executor bound to `chat` and settled.
Called(chat, name, input, outcome, ops) ==
    /\ tCalls < MaxCalls
    /\ tCalls' = tCalls + 1
    /\ tCall' = [chat |-> chat, name |-> name, input |-> input]
    /\ tResult' = outcome
    /\ tOps' = ops

RemoveAt(rows, i) == SubSeq(rows, 1, i - 1) \o SubSeq(rows, i + 1, Len(rows))

RowOf_AnyChat(rows, chat, id) == {i \in DOMAIN rows : rows[i].id = id}

\* `WHERE id = ? AND chat_id = ?`: the index of the row, or {}
RowOf(rows, chat, id) == {i \in DOMAIN rows : rows[i].id = id /\ rows[i].chatId = chat}

\* `WHERE chat_id = ? ORDER BY date DESC, created_at DESC LIMIT 1`
LastRowOf(rows, chat) ==
    {i \in DOMAIN rows :
        /\ rows[i].chatId = chat
        /\ \A j \in DOMAIN rows :
              rows[j].chatId = chat =>
                  \/ rows[j].date < rows[i].date
                  \/ (rows[j].date = rows[i].date /\ j <= i)}

\* ---- meals
\* logMeal's date: the day of a parsable, non-empty time_eaten, else of now
MealDate(input) ==
    IF input.time_eaten.type = "string" /\ input.time_eaten.str # ""
       /\ DateParse(input.time_eaten.str) # {}
    THEN CHOOSE d \in DateParse(input.time_eaten.str) : TRUE
    ELSE Today

MealRow_FromInput(chat, input, id) ==
    [id |-> id,
     chatId |-> IF input.chat_id.type = "string" THEN 2 ELSE chat,
     date |-> MealDate(input),
     description |-> IF input.description.type = "string" THEN input.description.str ELSE "",
     calories |-> num(input.calories), protein |-> num(input.protein),
     carbs |-> num(input.carbs), fat |-> num(input.fat)]

\* The row logMeal hands to MealRepository.create, with the id it is given.
MealRow(chat, input, id) ==
    [id |-> id, chatId |-> chat, date |-> MealDate(input),
     description |-> IF input.description.type = "string" THEN input.description.str ELSE "",
     calories |-> num(input.calories), protein |-> num(input.protein),
     carbs |-> num(input.carbs), fat |-> num(input.fat)]

mealToSummary(m) ==
    [id |-> m.id, description |-> m.description]
    @@ Opt("calories", m.calories) @@ Opt("protein", m.protein)
    @@ Opt("carbs", m.carbs) @@ Opt("fat", m.fat)

ExecLogMeal(chat, input, dbThrows) ==
    /\ IF dbThrows
       THEN /\ Called(chat, "log_meal", input, ToolFailed("database error"),
                      <<Op("meals", "insert", chat)>>)
            /\ UNCHANGED <<meals, mealSeq>>
       ELSE LET m == MealRow(chat, input, mealSeq + 1)
            IN /\ meals' = Append(meals, m)
               /\ mealSeq' = mealSeq + 1
               /\ Called(chat, "log_meal", input,
                         Resolved([success |-> TRUE,
                                   meal |-> mealToSummary(m) @@ [date |-> m.date]]),
                         <<Op("meals", "insert", chat)>>)
    /\ UNCHANGED <<sleepLog, sleepSeq, profiles, userPrefs, digests, digestWeather,
                 digestLog>>

RECURSIVE Total(_, _)
\* `meals.reduce((sum, m) => sum + (m.estimatedX ?? 0), 0)`
Total(rows, field) ==
    IF rows = <<>> THEN 0
    ELSE (IF Head(rows)[field] = {} THEN 0 ELSE CHOOSE x \in Head(rows)[field] : TRUE)
         + Total(Tail(rows), field)

\* MealRepository.getByDate: the chat's rows of the date, newest first
getByDate(chat, date) ==
    LET rows == SelectSeq(meals, LAMBDA m : m.chatId = chat /\ m.date = date)
    IN [i \in 1..Len(rows) |-> rows[Len(rows) + 1 - i]]

ExecGetMealsToday(chat, dbThrows) ==
    /\ LET rows == getByDate(chat, Today)
       IN Called(chat, "get_meals_today", NoFields,
                 IF dbThrows THEN ToolFailed("database error")
                 ELSE Resolved([date |-> Today,
                                meals |-> [i \in DOMAIN rows |-> mealToSummary(rows[i])],
                                totals |-> [calories |-> Total(rows, "calories"),
                                            protein |-> Total(rows, "protein"),
                                            carbs |-> Total(rows, "carbs"),
                                            fat |-> Total(rows, "fat")]]),
                 <<Op("meals", "select", chat)>>)
    /\ UNCHANGED <<stores, digests, digestWeather,
                 digestLog>>

\* MealRepository.delete(chatId, id) and deleteLast(chatId): the row they
\* remove, as SleepLogRepository's methods of the same names select it.
mealDelete(chat, id) == RowOf(meals, chat, id)
mealDeleteLast(chat) == LastRowOf(meals, chat)

\* deleteMeal and its four results
ExecDeleteMeal(chat, input) ==
    /\ LET mealId == num(input.meal_id)
           byId == mealDelete(chat, CHOOSE id \in mealId : TRUE)
           last == mealDeleteLast(chat)
       IN IF mealId # {}
          THEN IF byId = {}
               THEN /\ UNCHANGED meals
                    /\ Called(chat, "delete_meal", input,
                              Resolved([success |-> FALSE,
                                        message |-> "Meal not found or already deleted."]),
                              <<Op("meals", "delete", chat)>>)
               ELSE /\ meals' = RemoveAt(meals, CHOOSE i \in byId : TRUE)
                    /\ Called(chat, "delete_meal", input,
                              Resolved([success |-> TRUE,
                                        deleted_meal_id |-> CHOOSE id \in mealId : TRUE,
                                        message |-> "Meal deleted."]),
                              <<Op("meals", "delete", chat)>>)
          ELSE IF last = {}
               THEN /\ UNCHANGED meals
                    /\ Called(chat, "delete_meal", input,
                              Resolved([success |-> FALSE, message |-> "No meals to delete."]),
                              <<Op("meals", "deleteLast", chat)>>)
               ELSE LET i == CHOOSE i \in last : TRUE
                    IN /\ meals' = RemoveAt(meals, i)
                       /\ Called(chat, "delete_meal", input,
                                 Resolved([success |-> TRUE,
                                           deleted_meal_id |-> meals[i].id,
                                           message |-> "Deleted: " \o meals[i].description
                                                       \o " (" \o ToString(meals[i].date)
                                                       \o ")."]),
                                 <<Op("meals", "deleteLast", chat)>>)
    /\ UNCHANGED <<mealSeq, sleepLog, sleepSeq, profiles, userPrefs, digests, digestWeather,
                 digestLog>>

\* ---- sleep
\* UserPreferencesRepository.get: its SELECT names neither lat nor lon, and
\* the object it returns has neither, whatever the row holds.
getPrefs(chat) == NoPrefs

\* triggerDigest up to its first await: buildWeatherSection(prefs?.lat,
\* prefs?.lon) calls weatherPort.getWeather when both are defined.
WeatherCallOf(prefs) == IF HasCoordinates(prefs) THEN {<<prefs.lat, prefs.lon>>} ELSE {}

\* logSleep: SleepLogRepository.create, then the digest is started and left
\* to itself (when a digest service is configured), then the payload.
ExecLogSleep(chat, input, configured, dbThrows) ==
    /\ IF dbThrows
       THEN /\ Called(chat, "log_sleep", input, ToolFailed("database error"),
                      <<Op("sleep_log", "insert", chat)>>)
            /\ UNCHANGED <<sleepLog, sleepSeq, digests, digestWeather>>
       ELSE LET date == IF input.date.type = "string"
                        THEN CHOOSE d \in DateParse(input.date.str) : TRUE ELSE Today
                entry == [id |-> sleepSeq + 1, chatId |-> chat, date |-> date,
                          sleepScore |-> num(input.sleep_score)]
            IN /\ sleepLog' = Append(sleepLog, entry)
               /\ sleepSeq' = sleepSeq + 1
               /\ digests' = IF configured
                             THEN Append(digests, [chat |-> chat, state |-> "running"])
                             ELSE digests
               /\ digestWeather' = IF configured
                                   THEN Append(digestWeather, WeatherCallOf(getPrefs(chat)))
                                   ELSE digestWeather
               /\ Called(chat, "log_sleep", input,
                         Resolved([success |-> TRUE,
                                   entry |-> [id |-> entry.id, date |-> entry.date]
                                             @@ Opt("sleep_score", entry.sleepScore)]),
                         <<Op("sleep_log", "insert", chat)>>
                         \o (IF configured THEN <<Op("digest", "triggerDigest", chat)>>
                             ELSE <<>>))
    /\ UNCHANGED <<meals, mealSeq, profiles, userPrefs, digestLog>>

\* triggerDigest's promise resolves: the digest was sent.
DigestResolves(i) ==
    /\ i \in DOMAIN digests
    /\ digests[i].state = "running"
    /\ digests' = [digests EXCEPT ![i].state = "resolved"]
    /\ UNCHANGED <<tCalls, tCall, tResult, tOps, stores, digestWeather, digestLog>>

\* It rejects: logSleep's `.catch` logs the error.
DigestRejects_Propagates(i) ==
    /\ i \in DOMAIN digests
    /\ digests[i].state = "running"
    /\ digests' = [digests EXCEPT ![i].state = "rejected"]
    /\ digestLog' = digestLog + 1
    /\ tResult' = Rejected("digest failed")
    /\ UNCHANGED <<tCalls, tCall, tOps, stores, digestWeather>>

DigestRejects(i) ==
    /\ i \in DOMAIN digests
    /\ digests[i].state = "running"
    /\ digests' = [digests EXCEPT ![i].state = "rejected"]
    /\ digestLog' = digestLog + 1
    /\ UNCHANGED <<tCalls, tCall, tResult, tOps, stores, digestWeather>>

\* SleepLogRepository.delete(chatId, id) and deleteLast(chatId), then
\* deleteSleep's four results
ExecDeleteSleep(chat, input) ==
    /\ LET sleepId == num(input.sleep_id)
           byId == RowOf(sleepLog, chat, CHOOSE id \in sleepId : TRUE)
           last == LastRowOf(sleepLog, chat)
       IN IF sleepId # {}
          THEN IF byId = {}
               THEN /\ UNCHANGED sleepLog
                    /\ Called(chat, "delete_sleep", input,
                              Resolved([success |-> FALSE,
                                        message |-> "Sleep entry not found or already deleted."]),
                              <<Op("sleep_log", "delete", chat)>>)
               ELSE /\ sleepLog' = RemoveAt(sleepLog, CHOOSE i \in byId : TRUE)
                    /\ Called(chat, "delete_sleep", input,
                              Resolved([success |-> TRUE,
                                        deleted_sleep_id |-> CHOOSE id \in sleepId : TRUE,
                                        message |-> "Sleep entry deleted."]),
                              <<Op("sleep_log", "delete", chat)>>)
          ELSE IF last = {}
               THEN /\ UNCHANGED sleepLog
                    /\ Called(chat, "delete_sleep", input,
                              Resolved([success |-> FALSE,
                                        message |-> "No sleep entries to delete."]),
                              <<Op("sleep_log", "deleteLast", chat)>>)
               ELSE LET i == CHOOSE i \in last : TRUE
                    IN /\ sleepLog' = RemoveAt(sleepLog, i)
                       /\ Called(chat, "delete_sleep", input,
                                 Resolved([success |-> TRUE,
                                           deleted_sleep_id |-> sleepLog[i].id,
                                           message |-> "Deleted sleep entry for "
                                                       \o ToString(sleepLog[i].date) \o "."]),
                                 <<Op("sleep_log", "deleteLast", chat)>>)
    /\ UNCHANGED <<meals, mealSeq, sleepSeq, profiles, userPrefs, digests, digestWeather,
                 digestLog>>

\* ---- location and health profile
\* UserPreferencesRepository.upsert writes the chat's row; lat and lon are
\* not among the columns it writes.
upsertPrefs(chat, p) ==
    [userPrefs EXCEPT ![chat] =
        IF userPrefs[chat] = {} THEN {[lat |-> {}, lon |-> {}]} ELSE userPrefs[chat]]

ExecSetLocation(chat, input) ==
    /\ IF input.lat.type # "number" \/ input.lon.type # "number"
       THEN /\ UNCHANGED userPrefs
            /\ Called(chat, "set_location", input,
                      Resolved([success |-> FALSE,
                                message |-> "Both lat and lon are required as numbers."]),
                      <<>>)
       ELSE /\ userPrefs' = upsertPrefs(chat, [lat |-> input.lat.num, lon |-> input.lon.num])
            /\ Called(chat, "set_location", input,
                      Resolved([success |-> TRUE, lat |-> input.lat.num, lon |-> input.lon.num,
                                message |-> "Location saved. You will now get weather in your morning digest."]),
                      <<Op("user_preferences", "upsert", chat)>>)
    /\ UNCHANGED <<meals, mealSeq, sleepLog, sleepSeq, profiles, digests, digestWeather,
                 digestLog>>

\* setHealthProfile with HealthProfileRepository.upsert, which keeps the
\* stored value of a field that is not provided. (gender, age and the derived
\* bmi are left out.)
ExecSetHealthProfile(chat, input) ==
    /\ LET heightCm == num(input.height_cm)
           weightKg == num(input.weight_kg)
           existing == IF profiles[chat] = {} THEN [heightCm |-> {}, weightKg |-> {}]
                       ELSE CHOOSE row \in profiles[chat] : TRUE
           merged == [heightCm |-> IF heightCm # {} THEN heightCm ELSE existing.heightCm,
                      weightKg |-> IF weightKg # {} THEN weightKg ELSE existing.weightKg]
       IN IF heightCm = {} /\ weightKg = {}
          THEN /\ UNCHANGED profiles
               /\ Called(chat, "set_health_profile", input,
                         Resolved([success |-> FALSE,
                                   message |-> "Provide at least one of: height_cm, weight_kg, gender, age."]),
                         <<>>)
          ELSE /\ profiles' = [profiles EXCEPT ![chat] = {merged}]
               /\ Called(chat, "set_health_profile", input,
                         Resolved([success |-> TRUE] @@ Opt("height_cm", merged.heightCm)
                                  @@ Opt("weight_kg", merged.weightKg)),
                         <<Op("user_health_profiles", "upsert", chat)>>)
    /\ UNCHANGED <<meals, mealSeq, sleepLog, sleepSeq, userPrefs, digests, digestWeather,
                 digestLog>>

\* ---- chat history
\* readChatHistory; `configured` is whether the executor's dependencies hold a
\* messageHistoryRepository (reading a method of undefined throws). No
\* message is stored in these runs.
ExecReadChatHistory(chat, input, configured) ==
    /\ LET offset == num(input.offset)
           effectiveOffset == IF offset # {} /\ (CHOOSE x \in offset : TRUE) >= 0
                              THEN CHOOSE x \in offset : TRUE ELSE 0
       IN IF ~configured
          THEN Called(chat, "read_chat_history", input,
                      ToolFailed("Cannot read properties of undefined"), <<>>)
          ELSE Called(chat, "read_chat_history", input,
                      Resolved([found |-> FALSE,
                                message |-> IF effectiveOffset > 0
                                            THEN "No older messages in that range."
                                            ELSE "No chat history yet."]),
                      <<Op("messages", "select", chat)>>)
    /\ UNCHANGED <<stores, digests, digestWeather,
                 digestLog>>

\* ---- notes: async handlers, returned by execute without await
NotesNames == {"create_note", "search_notes"}

ExecNotesTool(chat, name, adapterRejects) ==
    /\ name \in NotesNames
    /\ Called(chat, name, NoFields,
              IF adapterRejects THEN Rejected("Obsidian adapter is disabled")
              ELSE IF name = "create_note"
              THEN Resolved([success |-> TRUE, path |-> "Inbox/x.md", title |-> "x",
                             category |-> ""])
              ELSE Resolved([query |-> "", count |-> 0, results |-> <<>>]),
              <<Op("notesPort", IF name = "create_note" THEN "createNote" ELSE "searchNotes", 0)>>)
    /\ UNCHANGED <<stores, digests, digestWeather,
                 digestLog>>

\* ---- execute's default branch
ExecUnknown(chat, toolName) ==
    /\ toolName \notin HandledNames
    /\ Called(chat, toolName, NoFields,
              Resolved([error |-> "Unknown tool: " \o toolName]), <<>>)
    /\ UNCHANGED <<stores, digests, digestWeather,
                 digestLog>>

\* ========================================================= DigestBuilder
\* buildDigest gathers sleep, calendar and newsletters, asks the model for
\* the digest text and falls back to a digest it builds itself. Strings are
\* token sequences as above; the emoji are left out of the tokens.
Toggles ==
    [includeSleep : BOOLEAN, includeNewsletters : BOOLEAN, includeCalendar : BOOLEAN,
     includeCaptureReview : BOOLEAN]

SleepData ==
    [sleepScore |-> 82, deepSleepMinutes |-> 60, remSleepMinutes |-> 90,
     timeToBed |-> "23:00", timeAwake |-> "07:00"]
Standup == [title |-> "Standup", start |-> "10:00 AM", end |-> "10:30 AM"]
Newsletter(subject, receivedAt) ==
    [subject |-> subject, body |-> "Short body.", receivedAt |-> receivedAt]
Capture == [content |-> "Read the paper", suggestedCategory |-> "Reading"]

\* A promise of a list or of a text, pending or rejected.
ListPending == [status |-> "pending", value |-> <<>>]
ListRejected == [status |-> "rejected", value |-> <<>>]

\* What the three sources can settle with (value {} is null).
SleepOutcomes == {Fulfilled({SleepData}), Fulfilled({}), SectionRejected}
CalendarOutcomes == {Fulfilled(<<Standup>>), Fulfilled(<<>>), ListRejected}
EmailOutcomes ==
    {Fulfilled(<<Newsletter("Old", 1), Newsletter("New", 2)>>), Fulfilled(<<>>),
     ListRejected}
\* pendingCaptureRepository.getUnresolved(): a list, or {} when it throws
CaptureOutcomes == {{<<Capture>>}, {<<>>}, {}}
\* generateText's response.text
DigestTexts == {<<" ", "Your day: standup at 10.", "\n">>, <<" ", "\n">>, <<>>}

VARIABLES
    bpc,        \* buildDigest: "idle", "awaitSources", "awaitModel", "returned"
    bToggles,   \* the section toggles, defaults applied
    bCalls,     \* the ports it has called
    bSettled,   \* what Promise.allSettled reported: [sleep, calendar, email]
    bPayload,   \* the data handed to the model, {} before
    bModel,     \* the model call's promise: pending, fulfilled with a text, rejected
    bResult     \* what buildDigest's promise settled with, {} before

builderVars == <<bpc, bToggles, bCalls, bSettled, bPayload, bModel, bResult>>

AllToggles ==
    [includeSleep |-> TRUE, includeNewsletters |-> TRUE, includeCalendar |-> TRUE,
     includeCaptureReview |-> TRUE]
NothingSettled == [sleep |-> Pending, calendar |-> ListPending, email |-> ListPending]

BuilderInit ==
    /\ bpc = "idle"
    /\ bToggles = AllToggles
    /\ bCalls = {}
    /\ bSettled = NothingSettled
    /\ bPayload = {}
    /\ bModel = ListPending
    /\ bResult = {}

\* buildDigest up to `await Promise.allSettled`: a source that is toggled
\* off is not asked.
BuildDigest(toggles) ==
    /\ bpc = "idle"
    /\ bpc' = "awaitSources"
    /\ bToggles' = toggles
    /\ bCalls' = (IF toggles.includeSleep THEN {"sleepPort.getLastNight"} ELSE {})
                 \cup (IF toggles.includeCalendar THEN {"calendarPort.getTodayEvents"} ELSE {})
                 \cup (IF toggles.includeNewsletters
                       THEN {"emailPort.getUnreadNewsletters"} ELSE {})
    /\ UNCHANGED <<bSettled, bPayload, bModel, bResult>>

\* `include && result.status === 'fulfilled' ? result.value : empty`
SourceValue(included, result, empty) ==
    IF included /\ result.status = "fulfilled" THEN result.value ELSE empty

RECURSIVE sortByReceivedAtDesc(_)
\* `[...all].sort((a, b) => b.receivedAt - a.receivedAt)`
sortByReceivedAtDesc(list) ==
    IF list = <<>> THEN <<>>
    ELSE LET newest == CHOOSE i \in DOMAIN list :
                           \A j \in DOMAIN list :
                               \/ list[j].receivedAt < list[i].receivedAt
                               \/ (list[j].receivedAt = list[i].receivedAt /\ i <= j)
         IN <<list[newest]>>
            \o sortByReceivedAtDesc(SubSeq(list, 1, newest - 1)
                                    \o SubSeq(list, newest + 1, Len(list)))

\* `.slice(0, n)`
slice(list, n) == SubSeq(list, 1, IF Len(list) < n THEN Len(list) ELSE n)

\* The allSettled results have arrived: the values, the pending captures, the
\* payload, and the model is called. getUnresolved is outside any try block.
SourcesSettled(sleepResult, calendarResult, emailResult, captures) ==
    /\ bpc = "awaitSources"
    /\ sleepResult = (IF bToggles.includeSleep THEN sleepResult ELSE Fulfilled({}))
    /\ calendarResult = (IF bToggles.includeCalendar THEN calendarResult ELSE Fulfilled(<<>>))
    /\ emailResult = (IF bToggles.includeNewsletters THEN emailResult ELSE Fulfilled(<<>>))
    /\ bSettled' = [sleep |-> sleepResult, calendar |-> calendarResult, email |-> emailResult]
    /\ IF bToggles.includeCaptureReview /\ captures = {}
       THEN /\ bpc' = "returned"
            /\ bResult' = {Rejected("database error")}
            /\ UNCHANGED <<bPayload, bCalls>>
       ELSE /\ bpc' = "awaitModel"
            /\ bPayload' =
                 {[sleep |-> SourceValue(bToggles.includeSleep, sleepResult, {}),
                   events |-> SourceValue(bToggles.includeCalendar, calendarResult, <<>>),
                   newsletters |->
                       slice(sortByReceivedAtDesc(
                                 SourceValue(bToggles.includeNewsletters, emailResult, <<>>)),
                             5),
                   pendingCaptures |-> IF bToggles.includeCaptureReview
                                       THEN CHOOSE list \in captures : TRUE ELSE <<>>]}
            /\ bCalls' = bCalls \cup {"llmPort.generateText"}
            /\ UNCHANGED bResult
    /\ UNCHANGED <<bToggles, bModel>>

BriefHeader == <<"Good morning! Here's your daily brief:">>

\* buildFallbackDigest's `lines`, joined by '\n'
buildFallbackDigest(sleep, events, newsletters, pendingCaptures, toggles) ==
    LET sleepLines ==
            IF ~toggles.includeSleep THEN <<>>
            ELSE <<<<>>, <<"SLEEP">>>>
                 \o (IF sleep # {}
                     THEN LET d == CHOOSE x \in sleep : TRUE
                          IN <<<<"Score: " \o ToString(d.sleepScore) \o " | Deep: "
                                 \o ToString(d.deepSleepMinutes) \o "m | REM: "
                                 \o ToString(d.remSleepMinutes) \o "m">>,
                               <<"Bed: " \o d.timeToBed \o " -> Awake: " \o d.timeAwake>>,
                               <<"Energy peak ~unknown, trough ~unknown">>>>
                     ELSE <<<<"Sleep data unavailable.">>>>)
        newsletterLines ==
            IF ~toggles.includeNewsletters THEN <<>>
            ELSE <<<<>>, <<"NEWSLETTERS (" \o ToString(Len(newsletters)) \o " new)">>>>
                 \o (IF newsletters = <<>> THEN <<<<"No newsletters today">>>>
                     ELSE [i \in DOMAIN slice(newsletters, 5) |->
                              <<"- " \o newsletters[i].subject \o ": " \o newsletters[i].body>>])
        calendarLines ==
            IF ~toggles.includeCalendar THEN <<>>
            ELSE <<<<>>, <<"CALENDAR">>>>
                 \o (IF events = <<>> THEN <<<<"No meetings today">>>>
                     ELSE [i \in DOMAIN events |->
                              <<"- " \o events[i].title \o " (" \o events[i].start \o " - "
                                \o events[i].end \o ")">>])
        captureLines ==
            IF ~toggles.includeCaptureReview \/ pendingCaptures = <<>> THEN <<>>
            ELSE <<<<>>, <<"CAPTURE REVIEW">>>>
                 \o [i \in DOMAIN slice(pendingCaptures, 5) |->
                        <<"- \"" \o pendingCaptures[i].content \o "\" -> "
                          \o pendingCaptures[i].suggestedCategory>>]
    IN join(<<BriefHeader>> \o sleepLines \o newsletterLines \o calendarLines
            \o captureLines, <<"\n">>)

DigestOf_Untrimmed(model, payload, toggles) ==
    IF model.status = "fulfilled" /\ model.value # <<>>
    THEN model.value
    ELSE buildFallbackDigest(payload.sleep, payload.events, payload.newsletters,
                             payload.pendingCaptures, toggles)

\* The end of buildDigest: the model's trimmed text unless it is empty or
\* the call threw, else the fallback.
DigestOf(model, payload, toggles) ==
    IF model.status = "fulfilled" /\ trim(model.value) # <<>>
    THEN trim(model.value)
    ELSE buildFallbackDigest(payload.sleep, payload.events, payload.newsletters,
                             payload.pendingCaptures, toggles)

DigestModelReturns(text) ==
    /\ bpc = "awaitModel"
    /\ bpc' = "returned"
    /\ bModel' = Fulfilled(text)
    /\ bResult' = {Resolved(DigestOf(Fulfilled(text), CHOOSE x \in bPayload : TRUE, bToggles))}
    /\ UNCHANGED <<bToggles, bCalls, bSettled, bPayload>>

DigestModelThrows ==
    /\ bpc = "awaitModel"
    /\ bpc' = "returned"
    /\ bModel' = ListRejected
    /\ bResult' = {Resolved(DigestOf(ListRejected, CHOOSE x \in bPayload : TRUE, bToggles))}
    /\ UNCHANGED <<bToggles, bCalls, bSettled, bPayload>>

\* The caller has the result; the next buildDigest starts afresh.
BuilderReturn ==
    /\ bpc = "returned"
    /\ bpc' = "idle"
    /\ bToggles' = AllToggles
    /\ bCalls' = {}
    /\ bSettled' = NothingSettled
    /\ bPayload' = {}
    /\ bModel' = ListPending
    /\ bResult' = {}

\* ====================================================== AssistantService
\* The command-driven service: its message handler with the settings
\* commands, the sleep ingest and the rule-based IntentClassifier. A handler
\* runs to its end before the next message is taken up. Texts are token
\* sequences as above.
MaxInbound == 3

AssistTexts ==
    {<<"/sleep">>, <<"/SLEEP", " ", "slept 8h">>, <<" ", "slept 8h", " ">>, <<" ">>,
     <<"sleep on">>, <<"hello">>}

\* An inbound message's text and forwardedFrom ('' when it was not forwarded).
AssistMessages ==
    [text : AssistTexts, forwardedFrom : {""}]
    \cup {[text |-> <<" ", "slept 8h", " ">>, forwardedFrom |-> "Eight Sleep"]}

\* String.prototype.toLowerCase, on the tokens of AssistTexts
toLowerCase(text) == [i \in DOMAIN text |-> IF text[i] = "/SLEEP" THEN "/sleep" ELSE text[i]]

\* parseSettingsUpdate: {} is null. (Of the settings commands only
\* 'sleep on' is among the texts.)
parseSettingsUpdate(text) ==
    IF trim(toLowerCase(text)) = <<"sleep on">> THEN {[includeSleep |-> TRUE]} ELSE {}

\* `/\d+/.test(text)` and `/eight|sleep|pod/i.test(forwardedFrom)`
HasDigits(text) == \E i \in DOMAIN text : text[i] = "slept 8h"
IsSleepSource(forwardedFrom) == forwardedFrom = "Eight Sleep"

\* IntentClassifier.classify, as far as the sleep ingest goes: the other
\* intents are one, "other". content {} is undefined.
classify(m) ==
    LET text == trim(toLowerCase(m.text))
        originalText == trim(m.text)
    IN IF text = <<"/sleep">> \/ (Len(text) >= 2 /\ text[1] = "/sleep" /\ text[2] = " ")
       THEN [intent |-> "sleep_ingest", content |-> {trim(Tail(originalText))}]
       ELSE IF m.forwardedFrom # "" /\ IsSleepSource(m.forwardedFrom) /\ HasDigits(originalText)
       THEN [intent |-> "sleep_ingest", content |-> {originalText}]
       ELSE [intent |-> "other", content |-> {}]

VARIABLES
    awaitingSleep,  \* the chats whose next message is awaited as sleep data
    aSleepLog,      \* the rows AssistantService created in sleep_log
    aHandled,       \* the messages handled so far
    aLast           \* the last message: [from, message, reply]

assistVars == <<awaitingSleep, aSleepLog, aHandled, aLast>>

AssistInit ==
    /\ awaitingSleep = {}
    /\ aSleepLog = <<>>
    /\ aHandled = 0
    /\ aLast = [from |-> 0, message |-> [text |-> <<>>, forwardedFrom |-> ""], reply |-> ""]

SleepRow(chat, rawText) == [chatId |-> chat, date |-> Today, rawText |-> rawText]

AwaitedText_Untrimmed(text) == text

\* `message.text.trim()`, tested and stored by the awaiting branch
AwaitedText(text) == trim(text)

\* The message handler with handleMessage and handleSleepIngest; a throwing
\* sleepLogRepository.create ends in the handler's catch and the apology.
HandleAssistMessage(chat, m, createThrows) ==
    /\ aHandled < MaxInbound
    /\ aHandled' = aHandled + 1
    /\ LET classification == classify(m)
           content == IF classification.content = {} THEN <<>>
                      ELSE CHOOSE c \in classification.content : TRUE
           replied(reply) == aLast' = [from |-> chat, message |-> m, reply |-> reply]
       IN IF parseSettingsUpdate(m.text) # {}
          THEN /\ replied("Updated.")
               /\ UNCHANGED <<awaitingSleep, aSleepLog>>
          ELSE IF chat \in awaitingSleep /\ AwaitedText(m.text) # <<>>
          THEN /\ awaitingSleep' = awaitingSleep \ {chat}
               /\ IF createThrows
                  THEN replied(ApologyText) /\ UNCHANGED aSleepLog
                  ELSE /\ aSleepLog' = Append(aSleepLog, SleepRow(chat, AwaitedText(m.text)))
                       /\ replied("Stored sleep data.")
          ELSE IF classification.intent = "sleep_ingest"
          THEN IF content # <<>>
               THEN /\ UNCHANGED awaitingSleep
                    /\ IF createThrows
                       THEN replied(ApologyText) /\ UNCHANGED aSleepLog
                       ELSE /\ aSleepLog' = Append(aSleepLog, SleepRow(chat, content))
                            /\ replied("Stored sleep data.")
               ELSE /\ awaitingSleep' = awaitingSleep \cup {chat}
                    /\ replied("Paste or forward your sleep summary.")
                    /\ UNCHANGED aSleepLog
          ELSE /\ replied("other")
               /\ UNCHANGED <<awaitingSleep, aSleepLog>>

\* ================================================== concurrent handlers
\* The transport calls the message handler for every update it receives and
\* does not wait for the handler of an earlier update: handlers, and the
\* digests log_sleep starts, interleave at their awaits. Here a handler is
\* followed from await to await; the collaborators do not fail, except the
\* photo lookup.
MaxMessages == 2
MaxTurns == 1

Messages == 1..MaxMessages

\* An inbound message: its text and what getMediaUrl does with its photo
\* ("none": it has no photo; "empty": the lookup resolves to '').
InboundMessages ==
    {[text |-> "hello", photo |-> "none"], [text |-> "", photo |-> "resolves"],
     [text |-> "hello", photo |-> "rejects"], [text |-> "hello", photo |-> "empty"]}

\* The tool calls of the model's turns that ask for tools.
TurnCalls ==
    {<<"log_meal", "get_meals_today">>, <<"log_sleep", "log_sleep">>,
     <<"create_note", "get_meals_today">>}

DefaultPhotoPrompt ==
    "What is this meal? Please estimate the calories and macros and log it."

VARIABLES
    cHandlers,      \* per message: its handler's position and locals
    correlationId,  \* logger.ts's module-level correlationId: {} is undefined
    cHistory,       \* the messages table: [chat, role, text]
    cMeals,         \* the meals table: the chat of each meal, by id
    cSleepLog,      \* the sleep_log table: the chat of each entry, by id, and the
                    \* message whose handler wrote it
    cDigests,       \* the triggerDigest calls: [chat, message, sent]
    cOutbox         \* the sendMessage calls, in order: [kind, chat, of]

concVars == <<cHandlers, correlationId, cHistory, cMeals, cSleepLog, cDigests, cOutbox>>

NoHandler ==
    [pc |-> "none", chat |-> 0, text |-> "", photo |-> "none", cid |-> 0,
     firstCall |-> <<>>, turns |-> 0, calls |-> <<>>, results |-> <<>>,
     executing |-> 0, pending |-> {}]

ConcInit ==
    /\ cHandlers = [m \in Messages |-> NoHandler]
    /\ correlationId = {}
    /\ cHistory = <<>>
    /\ cMeals = <<>>
    /\ cSleepLog = <<>>
    /\ cDigests = <<>>
    /\ cOutbox = <<>>

\* generateCorrelationId: the id made for message m
CorrelationIdOf(m) == m
\* the id createLogger makes for itself when there is none
LoggerId == 0

\* createLogger: `if (!correlationId) setCorrelationId(generated)`
createLogger(current) == IF current = {} THEN {LoggerId} ELSE current

UserTurn_WithHistory(h, imageUrl, history) ==
    [i \in 1..Len(SelectSeq(history, LAMBDA row : row.chat = h.chat)) |->
        [role |-> SelectSeq(history, LAMBDA row : row.chat = h.chat)[i].role,
         content |-> <<[type |-> "text",
                        text |-> SelectSeq(history, LAMBDA row : row.chat = h.chat)[i].text]>>]]

\* handleMessage's `messages`: one user turn, the text or, with a photo URL,
\* an image block and a text block (the default prompt for an empty text).
UserTurn(h, imageUrl, history) ==
    <<[role |-> "user",
       content |-> IF imageUrl = {}
                   THEN <<[type |-> "text", text |-> h.text]>>
                   ELSE <<[type |-> "image", text |-> CHOOSE url \in imageUrl : TRUE],
                          [type |-> "text",
                           text |-> IF h.text = "" THEN DefaultPhotoPrompt ELSE h.text]>>]>>

\* handleMessage from `const messages` to the first `await generateWithTools`:
\* the conversation, and `new ToolExecutor`, whose logger field is made by
\* createLogger.
StartAgent(m, h, imageUrl) ==
    /\ cHandlers' = [cHandlers EXCEPT ![m] =
                        [h EXCEPT !.pc = "awaitModel",
                                  !.firstCall = UserTurn(h, imageUrl, cHistory')]]
    /\ correlationId' = createLogger({CorrelationIdOf(m)})

\* The transport hands message m to the handler: the correlation id, the
\* history row, and handleMessage up to its first await.
Deliver(m, chat, msg) ==
    /\ cHandlers[m].pc = "none"
    /\ \A earlier \in 1..(m - 1) : cHandlers[earlier].pc # "none"
    /\ cHistory' = Append(cHistory, [chat |-> chat, role |-> "user", text |-> msg.text])
    /\ LET h == [NoHandler EXCEPT !.chat = chat, !.text = msg.text, !.photo = msg.photo,
                                  !.cid = CorrelationIdOf(m)]
       IN IF msg.photo = "none"
          THEN StartAgent(m, h, {})
          ELSE /\ cHandlers' = [cHandlers EXCEPT ![m] = [h EXCEPT !.pc = "awaitMedia"]]
               /\ correlationId' = {CorrelationIdOf(m)}
    /\ UNCHANGED <<cMeals, cSleepLog, cDigests, cOutbox>>

\* `await getMediaUrl` is over: a URL, '' or a rejection that is caught.
MediaSettles(m) ==
    /\ cHandlers[m].pc = "awaitMedia"
    /\ cHandlers' = [cHandlers EXCEPT ![m] =
                        [cHandlers[m] EXCEPT
                            !.pc = "awaitModel",
                            !.firstCall =
                                UserTurn(cHandlers[m],
                                         IF cHandlers[m].photo = "resolves"
                                         THEN {"https://files/photo"} ELSE {},
                                         cHistory)]]
    /\ correlationId' = createLogger(correlationId)
    /\ UNCHANGED <<cHistory, cMeals, cSleepLog, cDigests, cOutbox>>

NoResult == [tool |-> "", id |-> 0, listed |-> {}]

StartsDigest_Deduplicated(started, chat) ==
    \A i \in DOMAIN started : started[i].chat = chat => started[i].sent

\* logSleep's `if (this.deps.morningDigestService)`: a digest service is
\* configured in these runs.
StartsDigest(started, chat) == TRUE

\* A synchronous handler run by execute for the executor of `chat`: what it
\* leaves in the tables, the digest it starts and its result.
RunTool(name, chat, m, mealRows, sleepRows, started) ==
    IF name = "log_meal"
    THEN [meals |-> Append(mealRows, chat), sleepLog |-> sleepRows, digests |-> started,
          result |-> {[tool |-> name, id |-> Len(mealRows) + 1, listed |-> {}]}]
    ELSE IF name = "get_meals_today"
    THEN [meals |-> mealRows, sleepLog |-> sleepRows, digests |-> started,
          result |-> {[tool |-> name, id |-> 0,
                       listed |-> {i \in DOMAIN mealRows : mealRows[i] = chat}]}]
    ELSE IF name = "log_sleep"
    THEN [meals |-> mealRows,
          sleepLog |-> Append(sleepRows, [chat |-> chat, message |-> m]),
          digests |-> IF StartsDigest(started, chat)
                      THEN Append(started, [chat |-> chat, message |-> m, sent |-> FALSE])
                      ELSE started,
          result |-> {[tool |-> name, id |-> Len(sleepRows) + 1, listed |-> {}]}]
    ELSE [meals |-> mealRows, sleepLog |-> sleepRows, digests |-> started, result |-> {}]

CallToRun_LastFirst(calls, results) == Len(calls) - Len(results)

\* `for (const toolCall of response.toolCalls)`: the call that is next
CallToRun(calls, results) == Len(results) + 1

\* `await toolExecutor.execute(name, input)` for the next call of handler h:
\* a synchronous handler has run when execute returns its promise.
StartCall(m, h) ==
    LET i == CallToRun(h.calls, h.results)
        run == RunTool(h.calls[i], h.chat, m, cMeals, cSleepLog, cDigests)
    IN /\ cHandlers' = [cHandlers EXCEPT ![m] =
                           [h EXCEPT !.pc = "awaitTool", !.executing = i,
                                     !.pending = run.result]]
       /\ cMeals' = run.meals
       /\ cSleepLog' = run.sleepLog
       /\ cDigests' = run.digests

RECURSIVE TurnsOf(_, _)
\* The tool turns of the handlers of messages 1..m
TurnsOf(handlers, m) == IF m = 0 THEN 0 ELSE handlers[m].turns + TurnsOf(handlers, m - 1)

\* generateWithTools resolved with a turn that asks for tools (the model does
\* so MaxTurns times at most, all handlers taken together).
ModelAsksForTools(m, calls) ==
    /\ cHandlers[m].pc = "awaitModel"
    /\ TurnsOf(cHandlers, MaxMessages) < MaxTurns
    /\ StartCall(m, [cHandlers[m] EXCEPT !.turns = @ + 1, !.calls = calls,
                                          !.results = <<>>])
    /\ UNCHANGED <<correlationId, cHistory, cOutbox>>

\* `await execute` is over (an async handler's promise has resolved): the
\* result is pushed, and the next call is made or the model is asked again.
ToolResumes(m) ==
    /\ cHandlers[m].pc = "awaitTool"
    /\ LET h == cHandlers[m]
           result == IF h.pending # {} THEN CHOOSE r \in h.pending : TRUE
                     ELSE [tool |-> h.calls[h.executing], id |-> 0, listed |-> {}]
           after == [h EXCEPT !.results = Append(h.results, result), !.executing = 0,
                              !.pending = {}]
       IN IF Len(after.results) < Len(after.calls)
          THEN StartCall(m, after)
          ELSE /\ cHandlers' = [cHandlers EXCEPT ![m] = [after EXCEPT !.pc = "awaitModel"]]
               /\ UNCHANGED <<cMeals, cSleepLog, cDigests>>
    /\ UNCHANGED <<correlationId, cHistory, cOutbox>>

\* generateWithTools resolved with a final turn: the reply is saved and sent.
ModelAnswers(m) ==
    /\ cHandlers[m].pc = "awaitModel"
    /\ cHandlers' = [cHandlers EXCEPT ![m] =
                        [cHandlers[m] EXCEPT !.pc = "awaitSend", !.calls = <<>>,
                                             !.results = <<>>]]
    /\ cHistory' = Append(cHistory, [chat |-> cHandlers[m].chat, role |-> "assistant",
                                     text |-> "reply"])
    /\ cOutbox' = Append(cOutbox, [kind |-> "reply", chat |-> cHandlers[m].chat, of |-> m])
    /\ UNCHANGED <<correlationId, cMeals, cSleepLog, cDigests>>

\* `await sendMessage` is over; the handler's finally block.
HandlerEnds(m) ==
    /\ cHandlers[m].pc = "awaitSend"
    /\ cHandlers' = [cHandlers EXCEPT ![m].pc = "done"]
    /\ correlationId' = {}
    /\ UNCHANGED <<cHistory, cMeals, cSleepLog, cDigests, cOutbox>>

\* A digest's sections have settled and it sends.
DigestSends(d) ==
    /\ d \in DOMAIN cDigests
    /\ ~cDigests[d].sent
    /\ cDigests' = [cDigests EXCEPT ![d].sent = TRUE]
    /\ cOutbox' = Append(cOutbox, [kind |-> "digest", chat |-> cDigests[d].chat, of |-> d])
    /\ UNCHANGED <<cHandlers, correlationId, cHistory, cMeals, cSleepLog>>

\* ======================================================== specifications
laterVars == <<builderVars, assistVars, concVars>>

vars == <<agentVars, digestVars, toolVars, laterVars>>

Init == AgentInit /\ DigestInit /\ ToolInit /\ BuilderInit /\ AssistInit
        /\ ConcInit

\* The message handler alone.
Next ==
    \/ \E chat \in Chats, e \in Envs, saveThrows \in BOOLEAN :
           OnMessage(chat, e, saveThrows) /\ UNCHANGED <<digestVars, toolVars, laterVars>>
    \/ \E api \in ApiResponses : ModelRespond(api) /\ UNCHANGED <<digestVars, toolVars, laterVars>>
    \/ ModelFail /\ UNCHANGED <<digestVars, toolVars, laterVars>>
    \/ LoopEnter /\ UNCHANGED <<digestVars, toolVars, laterVars>>
    \/ LoopBreak /\ UNCHANGED <<digestVars, toolVars, laterVars>>
    \/ LoopExit /\ UNCHANGED <<digestVars, toolVars, laterVars>>
    \/ ExecuteTool /\ UNCHANGED <<digestVars, toolVars, laterVars>>
    \/ \E saveThrows, sendThrows \in BOOLEAN :
           Finish(saveThrows, sendThrows) /\ UNCHANGED <<digestVars, toolVars, laterVars>>
    \/ Catch /\ UNCHANGED <<digestVars, toolVars, laterVars>>
    \/ Return /\ UNCHANGED <<digestVars, toolVars, laterVars>>

Spec == Init /\ [][Next]_vars

\* The digest alone: its three section builders interleave at their awaits.
DigestNext ==
    \/ \E chat \in Chats, prefs \in PrefsInputs, e \in Envs :
           TriggerDigest(chat, prefs, e) /\ UNCHANGED <<agentVars, toolVars, laterVars>>
    \/ WeatherFetched /\ UNCHANGED <<agentVars, toolVars, laterVars>>
    \/ WeatherFetchFailed /\ UNCHANGED <<agentVars, toolVars, laterVars>>
    \/ \E text \in WeatherTexts : WeatherSummarized(text) /\ UNCHANGED <<agentVars, toolVars, laterVars>>
    \/ WeatherSummaryFailed /\ UNCHANGED <<agentVars, toolVars, laterVars>>
    \/ \E api \in HealthApiResponses : HealthRespond(api) /\ UNCHANGED <<agentVars, toolVars, laterVars>>
    \/ HealthModelFail /\ UNCHANGED <<agentVars, toolVars, laterVars>>
    \/ HealthLoopEnter /\ UNCHANGED <<agentVars, toolVars, laterVars>>
    \/ HealthLoopExit /\ UNCHANGED <<agentVars, toolVars, laterVars>>
    \/ HealthExecuteTool /\ UNCHANGED <<agentVars, toolVars, laterVars>>
    \/ \E count \in 0..1 : RssFetched(count) /\ UNCHANGED <<agentVars, toolVars, laterVars>>
    \/ RssFetchFailed /\ UNCHANGED <<agentVars, toolVars, laterVars>>
    \/ \E text \in CurationTexts : RssCurated(text) /\ UNCHANGED <<agentVars, toolVars, laterVars>>
    \/ RssCurationFailed /\ UNCHANGED <<agentVars, toolVars, laterVars>>
    \/ \E sendThrows \in BOOLEAN : SendDigest(sendThrows) /\ UNCHANGED <<agentVars, toolVars, laterVars>>
    \/ DigestReturn /\ UNCHANGED <<agentVars, toolVars, laterVars>>

DigestSpec == Init /\ [][DigestNext]_vars

\* The tool executors alone: up to MaxCalls execute calls, on executors bound
\* to any chat, and the digests log_sleep started settling in between.
ToolNext ==
    \/ \E chat \in Chats, input \in MealInputs, dbThrows \in BOOLEAN :
           ExecLogMeal(chat, input, dbThrows) /\ UNCHANGED <<agentVars, digestVars, laterVars>>
    \/ \E chat \in Chats, dbThrows \in BOOLEAN :
           ExecGetMealsToday(chat, dbThrows) /\ UNCHANGED <<agentVars, digestVars, laterVars>>
    \/ \E chat \in Chats, input \in DeleteMealInputs :
           ExecDeleteMeal(chat, input) /\ UNCHANGED <<agentVars, digestVars, laterVars>>
    \/ \E chat \in Chats, input \in SleepInputs, configured, dbThrows \in BOOLEAN :
           ExecLogSleep(chat, input, configured, dbThrows)
           /\ UNCHANGED <<agentVars, digestVars, laterVars>>
    \/ \E i \in 1..MaxCalls : DigestResolves(i) /\ UNCHANGED <<agentVars, digestVars, laterVars>>
    \/ \E i \in 1..MaxCalls : DigestRejects(i) /\ UNCHANGED <<agentVars, digestVars, laterVars>>
    \/ \E chat \in Chats, input \in DeleteSleepInputs :
           ExecDeleteSleep(chat, input) /\ UNCHANGED <<agentVars, digestVars, laterVars>>
    \/ \E chat \in Chats, input \in LocationInputs :
           ExecSetLocation(chat, input) /\ UNCHANGED <<agentVars, digestVars, laterVars>>
    \/ \E chat \in Chats, input \in ProfileInputs :
           ExecSetHealthProfile(chat, input) /\ UNCHANGED <<agentVars, digestVars, laterVars>>
    \/ \E chat \in Chats, input \in HistoryInputs, configured \in BOOLEAN :
           ExecReadChatHistory(chat, input, configured)
           /\ UNCHANGED <<agentVars, digestVars, laterVars>>
    \/ \E chat \in Chats, name \in NotesNames, adapterRejects \in BOOLEAN :
           ExecNotesTool(chat, name, adapterRejects) /\ UNCHANGED <<agentVars, digestVars, laterVars>>
    \/ \E chat \in Chats, toolName \in HandledNames \cup OtherNames :
           ExecUnknown(chat, toolName) /\ UNCHANGED <<agentVars, digestVars, laterVars>>

ToolSpec == Init /\ [][ToolNext]_vars

\* DigestBuilder alone.
firstVars == <<agentVars, digestVars, toolVars>>

BuilderNext ==
    \/ \E toggles \in Toggles : BuildDigest(toggles) /\ UNCHANGED <<firstVars, assistVars, concVars>>
    \/ \E sleepResult \in SleepOutcomes, calendarResult \in CalendarOutcomes,
          emailResult \in EmailOutcomes, captures \in CaptureOutcomes :
           SourcesSettled(sleepResult, calendarResult, emailResult, captures)
           /\ UNCHANGED <<firstVars, assistVars, concVars>>
    \/ \E text \in DigestTexts : DigestModelReturns(text) /\ UNCHANGED <<firstVars, assistVars, concVars>>
    \/ DigestModelThrows /\ UNCHANGED <<firstVars, assistVars, concVars>>
    \/ BuilderReturn /\ UNCHANGED <<firstVars, assistVars, concVars>>

BuilderSpec == Init /\ [][BuilderNext]_vars

\* AssistantService alone.
AssistNext ==
    \E chat \in Chats, m \in AssistMessages, createThrows \in BOOLEAN :
        HandleAssistMessage(chat, m, createThrows)
        /\ UNCHANGED <<firstVars, builderVars, concVars>>

AssistSpec == Init /\ [][AssistNext]_vars

\* The handlers of up to MaxMessages messages and the digests they start.
ConcurrentNext ==
    \/ \E m \in Messages, chat \in Chats, msg \in InboundMessages :
           Deliver(m, chat, msg) /\ UNCHANGED <<firstVars, builderVars, assistVars>>
    \/ \E m \in Messages : MediaSettles(m) /\ UNCHANGED <<firstVars, builderVars, assistVars>>
    \/ \E m \in Messages, calls \in TurnCalls :
           ModelAsksForTools(m, calls) /\ UNCHANGED <<firstVars, builderVars, assistVars>>
    \/ \E m \in Messages : ToolResumes(m) /\ UNCHANGED <<firstVars, builderVars, assistVars>>
    \/ \E m \in Messages : ModelAnswers(m) /\ UNCHANGED <<firstVars, builderVars, assistVars>>
    \/ \E m \in Messages : HandlerEnds(m) /\ UNCHANGED <<firstVars, builderVars, assistVars>>
    \/ \E d \in 1..(2 * MaxTurns) :
           DigestSends(d) /\ UNCHANGED <<firstVars, builderVars, assistVars>>

ConcurrentSpec == Init /\ [][ConcurrentNext]_vars

\* A digest that was started gets to its send: its sections settle and the
\* event loop runs its continuation.
ConcurrentFairSpec ==
    ConcurrentSpec /\ \A d \in 1..(2 * MaxTurns) :
                          WF_vars(DigestSends(d) /\ UNCHANGED <<firstVars, builderVars, assistVars>>)

\* ================================================================ claims
\* ---- helpers of the claims' formulas
Range(f) == {f[i] : i \in DOMAIN f}

RECURSIVE SumSeq(_)
SumSeq(s) == IF s = <<>> THEN 0 ELSE Head(s) + SumSeq(Tail(s))

Ids(calls) == [j \in 1..Len(calls) |-> calls[j].id]
NoDuplicates(s) == \A i, j \in 1..Len(s) : s[i] = s[j] => i = j
Count(s, x) == Cardinality({i \in 1..Len(s) : s[i] = x})
Last(s) == s[Len(s)]

\* The steps the handler still has before it returns: every step of the
\* handler makes it smaller.
Measure ==
    LET width == MaxToolCalls + 4
        left == MAX_TOOL_ITERATIONS - iterations + 1
    IN CASE pc = "idle" -> 0
         [] pc = "done" -> 1
         [] pc = "catch" -> 2
         [] pc = "final" -> 3
         [] pc = "awaitModel" -> left * width + 3
         [] pc = "while" -> left * width + 2
         [] pc = "tools" -> left * width + 4 + (Len(response.toolCalls) - Len(toolResults))

\* C1: whatever the model answers, one inbound message leads to at most
\* MAX_TOOL_ITERATIONS + 1 generateWithTools calls, and every step of the
\* handler strictly decreases a natural-number measure, so it terminates.
C1_BoundedModelCalls ==
    /\ [](modelCalls <= MAX_TOOL_ITERATIONS + 1)
    /\ [](Measure >= 0)
    /\ [][pc # "idle" => Measure' < Measure]_vars

C1_Witness ==
    /\ pc = "done"
    /\ modelCalls = MAX_TOOL_ITERATIONS + 1
    /\ response.stopReason = "tool_use"
    /\ response.toolCalls # <<>>

\* C2: execute never rejects: nothing the handler's catch block receives
\* comes out of ToolExecutor.execute.
C2_ExecuteNeverRejects == \A t \in thrown : t.source # "execute"

\* C3: when the model is called again after a turn that requested N tool
\* calls, the last turn of the conversation is a user turn of exactly N
\* tool_result blocks, the i-th carrying the id of the i-th requested call.
C3_ToolResultReassembly ==
    (pc = "awaitModel" /\ Len(messages) > 1) =>
        LET requested == SelectBlocks(messages[Len(messages) - 1].content, "tool_use")
            turn == Last(messages)
        IN /\ turn.role = "user"
           /\ Len(requested) >= 1
           /\ Len(turn.content) = Len(requested)
           /\ \A i \in 1..Len(requested) :
                 /\ turn.content[i].type = "tool_result"
                 /\ turn.content[i].tool_use_id = requested[i].id
           /\ NoDuplicates([i \in 1..Len(turn.content) |-> turn.content[i].tool_use_id])

C3_Witness ==
    /\ pc = "awaitModel"
    /\ Len(messages) > 1
    /\ Len(Last(messages).content) = MaxToolCalls
    /\ MaxToolCalls > 1

\* C4: when the handler returns, a sendMessage to message.from has been
\* attempted: the final text alone when nothing threw, and the fixed apology
\* as the last attempt when anything threw.
C4_AlwaysAReplyAttempt ==
    pc = "done" =>
        /\ sent # <<>>
        /\ \A i \in 1..Len(sent) : sent[i][1] = message.from
        /\ thrown = {} =>
              sent = <<<<message.from,
                         IF response.text = Undefined THEN FallbackText ELSE response.text>>>>
        /\ thrown # {} => Last(sent)[2] = ApologyText

C4_Witness ==
    /\ pc = "done"
    /\ \E t \in thrown : t.source = "send"
    /\ Len(sent) = 2

\* C5: the reply text handed to sendMessage is never the empty string.
C5_ReplyNeverEmpty == \A i \in 1..Len(sent) : sent[i][2] # ""

\* C6: at every generateWithTools invocation the conversation starts with the
\* inbound message's user turn, alternates user/assistant, ends with a user
\* turn, every assistant turn is the corresponding response's contentBlocks,
\* and the user turn after it answers that response's tool calls, each once.
C6_ConversationWellFormed ==
    pc = "awaitModel" =>
        /\ Len(messages) = 2 * Len(received) + 1
        /\ messages[1] = [role |-> "user", content |-> message.text]
        /\ \A k \in 1..Len(received) :
              /\ messages[2 * k] = [role |-> "assistant", content |-> received[k].contentBlocks]
              /\ messages[2 * k + 1].role = "user"
              /\ [i \in 1..Len(messages[2 * k + 1].content) |->
                     messages[2 * k + 1].content[i].tool_use_id]
                 = Ids(SelectBlocks(received[k].contentBlocks, "tool_use"))
              /\ \A i \in 1..Len(messages[2 * k + 1].content) :
                     messages[2 * k + 1].content[i].type = "tool_result"
        /\ NoDuplicates(executed)

C6_Witness ==
    /\ pc = "awaitModel"
    /\ Len(messages) = 5
    /\ Len(messages[2].content) > 1

\* The tool calls of every response received for this message, in order.
RECURSIVE AllToolCallIds(_)
AllToolCallIds(rs) ==
    IF rs = <<>> THEN <<>> ELSE Ids(Head(rs).toolCalls) \o AllToolCallIds(Tail(rs))

\* C7 (as stated): when the handler returns without an error, every tool call
\* of every response was executed exactly once.
C7_EveryToolCallExecutedOnce ==
    (pc = "done" /\ thrown = {}) =>
        \A id \in Range(AllToolCallIds(received)) : Count(executed, id) = 1

\* C7 (amended): no tool call is executed twice; the tool calls of every
\* response but the last one received were executed exactly once, in order;
\* the tool calls of the response the loop ends with are not executed.
C7_ExecutedOnceUnlessLast ==
    /\ NoDuplicates(executed)
    /\ Len(received) > 0 =>
          /\ SubSeq(executed, 1, Len(AllToolCallIds(SubSeq(received, 1, Len(received) - 1))))
             = AllToolCallIds(SubSeq(received, 1, Len(received) - 1))
          /\ Range(executed) \subseteq Range(AllToolCallIds(received))
    /\ pc = "final" =>
          executed = AllToolCallIds(SubSeq(received, 1, Len(received) - 1))

C7_Witness ==
    /\ pc = "final"
    /\ iterations = MAX_TOOL_ITERATIONS
    /\ response.stopReason = "tool_use"
    /\ response.toolCalls # <<>>
    /\ Len(executed) > MAX_TOOL_ITERATIONS

\* C8: when the loop is left because the ceiling was reached, nothing was
\* thrown; the warning is logged; and unless saving or sending the reply
\* itself fails, the one message sent is the last response's text, or the
\* fallback when it has none, and no apology.
CeilingReached ==
    iterations = MAX_TOOL_ITERATIONS /\ response.stopReason = "tool_use"
    /\ Len(received) = MAX_TOOL_ITERATIONS + 1

C8_CeilingIsNotAnError ==
    CeilingReached =>
        /\ pc = "final" => thrown = {}
        /\ pc \in {"catch", "done"} =>
              /\ warned
              /\ \A t \in thrown : t.source \in {"history", "send"}
              /\ (\A t \in thrown : t.source # "history") =>
                    /\ sent # <<>>
                    /\ sent[1] = <<message.from,
                                   IF response.text = Undefined THEN FallbackText
                                   ELSE response.text>>
              /\ thrown = {} => Len(sent) = 1 /\ sent[1][2] # ApologyText

C8_Witness ==
    /\ CeilingReached
    /\ pc = "done"
    /\ thrown = {}
    /\ response.text = Undefined
    /\ sent = <<<<message.from, FallbackText>>>>

\* C9: the accumulated usage is the sum of the usage of every response
\* received for the message, whatever the way the loop ended.
UsageOf(r, field) == IF r.usage = {} THEN 0 ELSE (CHOOSE u \in r.usage : TRUE)[field]

C9_UsageIsTheSum ==
    pc # "idle" =>
        /\ totalUsage.inputTokens
           = SumSeq([k \in 1..Len(received) |-> UsageOf(received[k], "inputTokens")])
        /\ totalUsage.outputTokens
           = SumSeq([k \in 1..Len(received) |-> UsageOf(received[k], "outputTokens")])

C9_Witness ==
    /\ pc = "done"
    /\ Len(received) >= 3
    /\ totalUsage.inputTokens >= 4
    /\ \E k \in 1..Len(received) : received[k].usage = {}

\* The body a section has in the message when its builder settled with
\* `section`: what the builder returned, or the placeholder when it rejected
\* or returned nothing.
ExpectedBody(section, placeholder) ==
    IF section.status = "rejected" \/ section.value = {} THEN placeholder
    ELSE LET str == CHOOSE x \in section.value : TRUE
         IN IF str = <<>> THEN placeholder ELSE str

ExactlyOneRejected ==
    Cardinality({i \in 1..3 :
        <<weatherSection, healthSection, rssSection>>[i].status = "rejected"}) = 1

\* C10: when exactly one of the three section builders rejects, the message
\* sent holds the fixed placeholder under the failed section's header and,
\* under the two other headers, what their builders returned.
C10_OneFailureIsIsolated ==
    (dpc \in {"sent", "failed"} /\ ExactlyOneRejected) =>
        /\ Len(digestSent) = 1
        /\ digestSent[1][1] = dChat
        /\ digestSent[1][2] =
              Greeting \o <<"\n">>
              \o WeatherHeader \o ExpectedBody(weatherSection, WeatherPlaceholder)
              \o <<"\n", "\n">>
              \o HealthHeader \o ExpectedBody(healthSection, HealthPlaceholder)
              \o <<"\n", "\n">>
              \o RssHeader \o ExpectedBody(rssSection, RssPlaceholder)

C10_Witness ==
    /\ dpc = "sent"
    /\ healthSection.status = "rejected"
    /\ hIterations >= 1
    /\ weatherSection = Fulfilled({<<"Sunny, 21C.", " ", "Good day for a run.">>})
    /\ rssSection = Fulfilled({<<"The rabbit hole: H1", "\n", "P1", "\n", "L1">>})
    /\ digestSent[1][2] =
          <<"Good morning! Here's your daily brief:", "\n", "\n",
            "WEATHER", "\n", "Sunny, 21C.", " ", "Good day for a run.", "\n", "\n",
            "TODAY'S FOCUS", "\n", "Stay hydrated and move your body today.", "\n", "\n",
            "MUST-READ", "\n", "The rabbit hole: H1", "\n", "P1", "\n", "L1">>

\* ---- C11 .. C13, C18: the digest
Positions(str, token) == {i \in DOMAIN str : str[i] = token}
IsPrefix(p, str) == Len(p) <= Len(str) /\ SubSeq(str, 1, Len(p)) = p

\* The message triggerDigest sends for the given three bodies.
Layout(weatherBody, healthBody, rssBody) ==
    Greeting \o <<"\n">> \o WeatherHeader \o weatherBody \o <<"\n", "\n">>
    \o HealthHeader \o healthBody \o <<"\n", "\n">> \o RssHeader \o rssBody

\* C11: a triggerDigest whose send does not fail has called sendMessage
\* exactly once, no send happens before all three builders have settled, and
\* the message starts with the greeting and holds the WEATHER, TODAY'S FOCUS
\* and MUST-READ headers once each, in this order, whatever the sections'
\* outcomes.
C11_OneSendAfterAllSettled ==
    /\ Len(digestSent) <= 1
    /\ digestSent # <<>> =>
          /\ wpc = "settled" /\ hpc = "settled" /\ rpc = "settled"
          /\ \A x \in {weatherSection, healthSection, rssSection} : x.status # "pending"
    /\ dpc = "sent" =>
          /\ Len(digestSent) = 1
          /\ digestSent[1][1] = dChat
          /\ LET text == digestSent[1][2]
             IN /\ IsPrefix(Greeting, text)
                /\ \E i, j, k \in DOMAIN text :
                      /\ Positions(text, "WEATHER") = {i}
                      /\ Positions(text, "TODAY'S FOCUS") = {j}
                      /\ Positions(text, "MUST-READ") = {k}
                      /\ Len(Greeting) < i /\ i < j /\ j < k

C11_Witness ==
    /\ dpc = "sent"
    /\ weatherSection.status = "rejected"
    /\ healthSection.status = "rejected"
    /\ rssSection.status = "rejected"
    /\ Len(digestSent) = 1
    /\ digestSent[1][2] = Layout(WeatherPlaceholder, HealthPlaceholder, RssPlaceholder)

\* C12: when the chat's preferences lack lat or lon, neither
\* weatherPort.getWeather nor the weather summary's generateText is called,
\* the weather builder has settled with null from the start (so it never
\* delays the send), and the message sent holds the 'Set your location'
\* sentence under the WEATHER header.
C12_NoCoordinatesNoWeatherCalls ==
    (dpc # "idle" /\ (dPrefs.lat = {} \/ dPrefs.lon = {})) =>
        /\ weatherCalls = <<>>
        /\ summaryCalls = 0
        /\ wpc = "settled"
        /\ weatherSection = Fulfilled({})
        /\ dpc \in {"sent", "failed"} =>
              /\ Len(digestSent) = 1
              /\ IsPrefix(Greeting \o <<"\n">> \o WeatherHeader \o WeatherPlaceholder
                          \o <<"\n", "\n">> \o HealthHeader,
                          digestSent[1][2])

C12_Witness ==
    /\ dpc = "sent"
    /\ dPrefs.lat # {}
    /\ dPrefs.lon = {}
    /\ weatherCalls = <<>>
    /\ summaryCalls = 0
    /\ healthSection.status = "fulfilled"
    /\ IsPrefix(Greeting \o <<"\n">> \o WeatherHeader \o WeatherPlaceholder, digestSent[1][2])

\* C13 as stated: whenever the curation text is anything but a JSON array of
\* picks, buildRSSSection returns the raw trimmed text.
C13_RawTextUnlessPickArray ==
    \A text \in rText :
        text \notin PickArrayTexts \cup EmptyArrayTexts =>
            rssSection = Fulfilled({trim(text)})

\* C13: when the curation text is not valid JSON, is a JSON value other than
\* an array, or is an array with a null element, buildRSSSection fulfils
\* with the raw trimmed text; the message shows it under MUST-READ (the
\* headline placeholder when it is empty) and the two other sections hold
\* what their own builders produced. An array of objects without the fields
\* of a pick is formatted, with 'undefined' for each missing field.
C13_RawTextOnParseFailure ==
    \A text \in rText :
        /\ text \in InvalidJsonTexts \cup NonArrayTexts \cup NullElementTexts =>
              /\ rpc = "settled"
              /\ rssSection = Fulfilled({trim(text)})
              /\ dpc \in {"sent", "failed"} =>
                    digestSent[1][2] =
                        Layout(ExpectedBody(weatherSection, WeatherPlaceholder),
                               ExpectedBody(healthSection, HealthPlaceholder),
                               IF trim(text) = <<>> THEN RssPlaceholder ELSE trim(text))
        /\ text \in ObjectElementTexts =>
              rssSection = Fulfilled({<<"undefined: undefined", "\n", "undefined", "\n",
                                       "undefined">>})

C13_Witness ==
    /\ dpc = "sent"
    /\ rText = {<<"Here are my picks:", " ", "[", "{pick1}", "]">>}
    /\ weatherSection = Fulfilled({<<"Sunny, 21C.", " ", "Good day for a run.">>})
    /\ healthSection = Fulfilled({<<"Aim for 7h of sleep.">>})
    /\ digestSent[1][2] =
          Layout(<<"Sunny, 21C.", " ", "Good day for a run.">>,
                 <<"Aim for 7h of sleep.">>,
                 <<"Here are my picks:", " ", "[", "{pick1}", "]">>)

\* The steps buildHealthSection still has before it settles.
HealthMeasure ==
    LET width == MaxToolCalls + 2
        left == maxIterations - hIterations
    IN CASE hpc \in {"idle", "settled"} -> 0
         [] hpc = "while" -> left * width + 1
         [] hpc = "awaitModel" -> left * width + 2
         [] hpc = "tools" -> left * width + 2 + (Len(hResponse.toolCalls) - Len(hToolResults))

\* C18: the health sub-loop makes at most maxIterations + 1 = 4
\* generateWithTools calls, each offering exactly get_meals_range and
\* get_sleep_range; every step of it strictly decreases a natural-number
\* measure, so it terminates; and when it returns, it returns the last
\* response's text, trimmed, or the fixed fallback sentence when that response
\* has no text.
C18_HealthLoopBounded ==
    /\ [](hModelCalls <= maxIterations + 1 /\ hIterations <= maxIterations)
    /\ [](Len(hOffered) = hModelCalls
          /\ \A i \in DOMAIN hOffered : hOffered[i] = {"get_meals_range", "get_sleep_range"})
    /\ [](HealthMeasure >= 0)
    /\ [][(hpc \notin {"idle", "settled"}) => HealthMeasure' < HealthMeasure]_healthVars
    /\ []((hpc = "settled" /\ healthSection.status = "fulfilled") =>
            healthSection.value =
                {IF hResponse.text = Undefined
                 THEN <<"Focus on balanced nutrition and good sleep today.">>
                 ELSE trim(hResponse.text)})

C18_Witness ==
    /\ hpc = "settled"
    /\ hModelCalls = maxIterations + 1
    /\ hIterations = maxIterations
    /\ hResponse.stopReason = "tool_use"
    /\ hResponse.toolCalls # <<>>
    /\ healthSection = Fulfilled({<<"Checking.">>})

\* ---- C14 .. C17, C19, C20: the tool executor
\* The step is an execute call of the tool `name`.
IsCall(name) == tCalls' = tCalls + 1 /\ tCall'.name = name
Succeeded(outcome) ==
    /\ outcome.settled = "fulfilled"
    /\ "success" \in DOMAIN outcome.value
    /\ outcome.value.success = TRUE

\* C14: a digest is started only in the step of a log_sleep whose entry was
\* written, for that entry's chat, and it is still running when log_sleep has
\* returned; a log_sleep that wrote its entry returns the success payload of
\* that entry, and the entry is stored, whatever the state of the digests;
\* a digest that resolves or rejects changes neither a returned result nor a
\* table, and a rejection only adds a log line.
C14_LogSleepIgnoresTheDigest ==
    /\ [](tCall.name = "log_sleep" =>
            /\ tResult.settled = "fulfilled"
            /\ \/ "error" \in DOMAIN tResult.value
               \/ \E i \in DOMAIN sleepLog :
                     /\ sleepLog[i].chatId = tCall.chat
                     /\ sleepLog[i].id = sleepSeq
                     /\ tResult.value.success = TRUE
                     /\ tResult.value.entry.id = sleepLog[i].id
                     /\ tResult.value.entry.date = sleepLog[i].date)
    /\ [](digestLog = Cardinality({i \in DOMAIN digests : digests[i].state = "rejected"}))
    /\ [][digests' # digests =>
            IF Len(digests') > Len(digests)
            THEN /\ IsCall("log_sleep")
                 /\ Len(digests') = Len(digests) + 1
                 /\ digests'[Len(digests')] = [chat |-> tCall'.chat, state |-> "running"]
                 /\ Len(sleepLog') = Len(sleepLog) + 1
                 /\ sleepLog'[Len(sleepLog')].chatId = tCall'.chat
                 /\ Succeeded(tResult')
            ELSE UNCHANGED <<tCalls, tCall, tResult, tOps, stores>>]_vars

C14_Witness ==
    /\ tCall.name = "log_sleep"
    /\ Succeeded(tResult)
    /\ Len(digests) = 2
    /\ digests[1].state = "rejected"
    /\ digests[2].state = "running"
    /\ digestLog = 1
    /\ Len(sleepLog) = 2

OtherChats(rows, chat) == SelectSeq(rows, LAMBDA row : row.chatId # chat)
Tables == {"meals", "sleep_log", "user_health_profiles", "user_preferences", "messages"}

NotFoundPayload == [success |-> FALSE, message |-> "Meal not found or already deleted."]

\* C16: a delete_meal call returns {success: false, message: 'Meal not found
\* or already deleted.'} exactly when its meal_id is a number that is the id
\* of no meal of the executor's chat, and such a call removes no meal; the
\* three other results of delete_meal differ from it.
C16_DeleteOfAMissingMeal ==
    [][IsCall("delete_meal") =>
          LET id == tCall'.input.meal_id
              missing == /\ id.type = "number" /\ id.finite
                         /\ ~\E i \in DOMAIN meals :
                                meals[i].id = id.num /\ meals[i].chatId = tCall'.chat
          IN /\ missing <=> tResult' = Resolved(NotFoundPayload)
             /\ missing => meals' = meals
             /\ ~missing =>
                   /\ tResult'.value.message # NotFoundPayload.message
                   /\ \/ tResult'.value.message = "No meals to delete." /\ meals' = meals
                      \/ Succeeded(tResult') /\ Len(meals') = Len(meals) - 1]_vars

C16_Witness ==
    /\ tCall.name = "delete_meal"
    /\ tCall.chat = 2
    /\ tCall.input.meal_id = Num(1)
    /\ tResult = Resolved(NotFoundPayload)
    /\ Len(meals) = 1
    /\ meals[1].id = 1
    /\ meals[1].chatId = 1

Provided(v) == v.type = "number" /\ v.finite
Macros == {"calories", "protein", "carbs", "fat"}

\* The summary get_meals_today gives for the meal the log_meal call before it
\* stored: the same description, each provided macro with its value, no key
\* for a macro that was omitted or is not a number.
ListsTheLoggedMeal ==
    \E i \in DOMAIN tResult'.value.meals :
        LET summary == tResult'.value.meals[i]
            input == tCall.input
        IN /\ summary.id = tResult.value.meal.id
           /\ summary.description =
                 (IF input.description.type = "string" THEN input.description.str ELSE "")
           /\ \A k \in Macros :
                 IF Provided(input[k])
                 THEN k \in DOMAIN summary /\ summary[k] = input[k].num
                 ELSE k \notin DOMAIN summary

LoggedThenListed ==
    /\ tCall.name = "log_meal"
    /\ Succeeded(tResult)
    /\ IsCall("get_meals_today")
    /\ tCall'.chat = tCall.chat
    /\ "error" \notin DOMAIN tResult'.value

\* C17 as stated: get_meals_today right after a log_meal of the same chat
\* lists the logged meal.
C17_LoggedMealIsListedToday ==
    [][LoggedThenListed => ListsTheLoggedMeal]_vars

\* C17: get_meals_today right after a log_meal of the same chat lists the
\* logged meal, with its description and provided macros and without the
\* others, when the meal's time_eaten is absent, empty, unparsable or of the
\* current day; a meal logged with a time_eaten of another day is stored under
\* that day and is not listed.
C17_LoggedMealOfTodayIsListed ==
    [][LoggedThenListed =>
          LET t == tCall.input.time_eaten
              otherDay == t.type = "string" /\ t.str \in {"day1"}
          IN IF otherDay
             THEN \A i \in DOMAIN tResult'.value.meals :
                      tResult'.value.meals[i].id # tResult.value.meal.id
             ELSE ListsTheLoggedMeal]_vars

C17_Witness ==
    /\ tCall.name = "get_meals_today"
    /\ tCall.chat = 1
    /\ Len(meals) = 1
    /\ meals[1].chatId = 1
    /\ "meals" \in DOMAIN tResult.value
    /\ tResult.value.meals = <<[id |-> 1, description |-> "toast", fat |-> 5]>>
    /\ tResult.value.totals = [calories |-> 0, protein |-> 0, carbs |-> 0, fat |-> 5]

\* C19: a call whose tool name is not in ALL_TOOLS returns the 'Unknown tool'
\* error payload and issues no repository or adapter call.
C19_UncataloguedNameIsUnknown ==
    (tCalls > 0 /\ tCall.name \notin ALL_TOOLS) =>
        /\ tResult = Resolved([error |-> "Unknown tool: " \o tCall.name])
        /\ tOps = <<>>

\* C20: a call of a catalog tool resolves to a JSON object that has
\* success: true, or found: true, or an error, or found: false or
\* success: false together with a message.
C20_ResultShape ==
    (tCalls > 0 /\ tCall.name \in ALL_TOOLS) =>
        /\ tResult.settled = "fulfilled"
        /\ LET v == tResult.value
               has(k) == k \in DOMAIN v
           IN \/ has("success") /\ v.success = TRUE
              \/ has("found") /\ v.found = TRUE
              \/ has("error")
              \/ has("message") /\ \/ has("found") /\ v.found = FALSE
                                   \/ has("success") /\ v.success = FALSE

\* ---- C22, C23, C28: the tool executor, continued
\* C22: when set_location has just returned success for a chat and a digest
\* is then triggered for that chat, the digest calls weatherPort.getWeather
\* with the latitude and longitude that were set.
C22_DigestUsesTheSetLocation ==
    [][(/\ tCall.name = "set_location"
        /\ Succeeded(tResult)
        /\ IsCall("log_sleep")
        /\ tCall'.chat = tCall.chat
        /\ Len(digests') > Len(digests))
       => digestWeather'[Len(digestWeather')] = {<<{tCall.input.lat.num}, {tCall.input.lon.num}>>}]_vars

UnknownToolPayload(name) == Resolved([error |-> "Unknown tool: " \o name])

\* C23: the catalog's names are pairwise distinct; each of them is a case
\* label of execute, which never answers a call of it with the 'Unknown tool'
\* payload; and executeHealthTool handles both names of HEALTH_TOOLS.
C23_CatalogAndExecutorAgree ==
    /\ NoDuplicates(CatalogNames)
    /\ ALL_TOOLS \subseteq HandledNames
    /\ \A n \in ALL_TOOLS, e \in Envs : execute(n, "input", e) # UnknownToolPayload(n)
    /\ \A n \in HEALTH_TOOLS, e \in Envs :
           executeHealthTool(n, "input", e) # UnknownToolPayload(n)
    /\ (tCalls > 0 /\ tCall.name \in ALL_TOOLS) => tResult # UnknownToolPayload(tCall.name)

C23_Witness ==
    /\ tCalls = MaxCalls
    /\ tCall.name = "get_meals_today"
    /\ tCall.name \in ALL_TOOLS
    /\ tResult.settled = "fulfilled"
    /\ "totals" \in DOMAIN tResult.value
    /\ Len(meals) = 1

\* An id was supplied and it is not a finite number.
NotAFiniteNumber(v) == v # Absent /\ ~(v.type = "number" /\ v.finite)

\* The step deleted the bound chat's most recent row of `rows` and said so,
\* or said that there is none, as a call without an id does.
DeletedTheMostRecent(rows, rowsAfter, idKey, none, said(_)) ==
    LET last == LastRowOf(rows, tCall'.chat)
    IN /\ tResult'.settled = "fulfilled"
       /\ IF last = {}
          THEN /\ rowsAfter = rows
               /\ tResult'.value = [success |-> FALSE, message |-> none]
          ELSE LET i == CHOOSE i \in last : TRUE
               IN /\ rowsAfter = RemoveAt(rows, i)
                  /\ tResult'.value = (idKey :> rows[i].id)
                                      @@ [success |-> TRUE, message |-> said(rows[i])]

\* C28: delete_meal and delete_sleep with an id that is not a finite number
\* (a string, null, NaN) act as without an id: the bound chat's most recent
\* meal / sleep entry is deleted and the delete-most-recent message returned.
C28_NonNumericIdDeletesTheMostRecent ==
    [][/\ (IsCall("delete_meal") /\ NotAFiniteNumber(tCall'.input.meal_id))
          => DeletedTheMostRecent(meals, meals', "deleted_meal_id", "No meals to delete.",
                 LAMBDA m : "Deleted: " \o m.description \o " (" \o ToString(m.date) \o ").")
       /\ (IsCall("delete_sleep") /\ NotAFiniteNumber(tCall'.input.sleep_id))
          => DeletedTheMostRecent(sleepLog, sleepLog', "deleted_sleep_id",
                 "No sleep entries to delete.",
                 LAMBDA r : "Deleted sleep entry for " \o ToString(r.date) \o ".")]_vars

C28_Witness ==
    /\ tCall.name = "delete_sleep"
    /\ tCall.input.sleep_id = Str("1")
    /\ Succeeded(tResult)
    /\ tResult.value.message = "Deleted sleep entry for 2."
    /\ sleepLog = <<>>

\* ---- C26: DigestBuilder
\* C26: buildDigest resolves to the model's trimmed text when that is not
\* empty, and else (empty or whitespace text, or the model call threw) to the
\* fallback digest, which begins with the 'Good morning!' line; a source that
\* rejected appears as its empty value in the model's data and in the
\* fallback; buildDigest rejects for no reason but the capture repository
\* throwing.
C26_ModelTextOrFallback ==
    /\ bPayload # {} =>
           LET payload == CHOOSE x \in bPayload : TRUE
           IN /\ bSettled.sleep.status = "rejected" => payload.sleep = {}
              /\ bSettled.calendar.status = "rejected" => payload.events = <<>>
              /\ bSettled.email.status = "rejected" => payload.newsletters = <<>>
    /\ bpc = "returned" =>
           LET result == CHOOSE r \in bResult : TRUE
           IN IF bModel.status = "pending"
              THEN result.settled = "rejected" /\ bToggles.includeCaptureReview
              ELSE /\ result.settled = "fulfilled"
                   /\ IF bModel.status = "fulfilled" /\ trim(bModel.value) # <<>>
                      THEN result.value = trim(bModel.value)
                      ELSE /\ IsPrefix(BriefHeader, result.value)
                           /\ Len(result.value) > 1 => result.value[2] = "\n"
                           /\ (bToggles.includeSleep /\ bSettled.sleep.status = "rejected")
                              => "Sleep data unavailable." \in Range(result.value)
                           /\ (bToggles.includeCalendar
                               /\ bSettled.calendar.status = "rejected")
                              => "No meetings today" \in Range(result.value)
                           /\ (bToggles.includeNewsletters
                               /\ bSettled.email.status = "rejected")
                              => {"NEWSLETTERS (0 new)", "No newsletters today"}
                                     \subseteq Range(result.value)

C26_Witness ==
    /\ bpc = "returned"
    /\ bModel.status = "rejected"
    /\ bToggles = AllToggles
    /\ bSettled.sleep.status = "rejected"
    /\ bSettled.calendar.status = "rejected"
    /\ bSettled.email = Fulfilled(<<Newsletter("Old", 1), Newsletter("New", 2)>>)
    /\ bResult = {Resolved(join(<<BriefHeader, <<>>, <<"SLEEP">>, <<"Sleep data unavailable.">>,
                                  <<>>, <<"NEWSLETTERS (2 new)">>, <<"- New: Short body.">>,
                                  <<"- Old: Short body.">>, <<>>, <<"CALENDAR">>,
                                  <<"No meetings today">>>>, <<"\n">>))}

\* ---- C25: AssistantService's sleep ingest
\* The step is the handling of a message of chat c.
Handles(c) == aHandled' = aHandled + 1 /\ aLast'.from = c
\* The step stored a row of chat c and of today, and nothing else.
StoredFor(c) ==
    /\ Len(aSleepLog') = Len(aSleepLog) + 1
    /\ SubSeq(aSleepLog', 1, Len(aSleepLog)) = aSleepLog
    /\ Last(aSleepLog').chatId = c
    /\ Last(aSleepLog').date = Today
\* Neither a /sleep command nor a forward from a sleep tracker.
Ordinary(m) == classify(m).intent # "sleep_ingest"
OthersKeepWaiting(c) == \A o \in Chats \ {c} : o \in awaitingSleep' <=> o \in awaitingSleep

InProgress(m) == cHandlers[m].pc \notin {"none", "done"}

\* C21: no two messages of one chat are being handled at the same time.
C21_OneHandlerPerChat ==
    \A m1, m2 \in Messages :
        (m1 # m2 /\ InProgress(m1) /\ InProgress(m2)) => cHandlers[m1].chat # cHandlers[m2].chat

\* C24: while the messages being handled are of different chats, the current
\* correlation id is the id of each handler that is in progress.
C24_CorrelationIdIsTheHandlers ==
    C21_OneHandlerPerChat =>
        \A m \in Messages : InProgress(m) => correlationId = {cHandlers[m].cid}

\* C27: the conversation of a handler's first model call is one user turn,
\* made of the message's text, or of an image block and a text block when the
\* photo's URL resolved; two messages with the same text and photo get the
\* same conversation, whatever was handled before them.
C27_FirstCallHasOnlyTheMessage ==
    /\ \A m \in Messages :
           LET h == cHandlers[m]
           IN h.firstCall # <<>> =>
                  /\ Len(h.firstCall) = 1
                  /\ h.firstCall[1].role = "user"
                  /\ LET content == h.firstCall[1].content
                     IN IF h.photo = "resolves"
                        THEN /\ Len(content) = 2
                             /\ content[1].type = "image"
                             /\ content[2] = [type |-> "text",
                                              text |-> IF h.text = "" THEN DefaultPhotoPrompt
                                                       ELSE h.text]
                        ELSE content = <<[type |-> "text", text |-> h.text]>>
    /\ \A m1, m2 \in Messages :
           LET h1 == cHandlers[m1]
               h2 == cHandlers[m2]
           IN (h1.firstCall # <<>> /\ h2.firstCall # <<>> /\ h1.text = h2.text
               /\ h1.photo = h2.photo)
              => h1.firstCall = h2.firstCall

C27_Witness ==
    /\ cHandlers[1].pc = "done"
    /\ cHandlers[1].turns = 1
    /\ cHandlers[2].chat = cHandlers[1].chat
    /\ cHandlers[2].pc = "awaitModel"
    /\ cHandlers[2].photo = "resolves"
    /\ Len(cHistory) = 3
    /\ cMeals # <<>>
    /\ cHandlers[2].firstCall =
           <<[role |-> "user",
              content |-> <<[type |-> "image", text |-> "https://files/photo"],
                            [type |-> "text", text |-> DefaultPhotoPrompt]>>]>>

DigestSendsOf(d) ==
    Cardinality({i \in DOMAIN cOutbox : cOutbox[i].kind = "digest" /\ cOutbox[i].of = d})

====
